---------------------------- MODULE Spec2Model ----------------------------
(***************************************************************************)
(* Model of scripts/uploadTextsToSupabase.py: the router chunk_text, the   *)
(* boundary locator extract_content, the five per-book scanners and        *)
(* create_chunk_objects.                                                   *)
(*                                                                         *)
(* Texts are TLA+ strings, handled character by character with Len, \o and *)
(* SubSeq, so that find, split, strip, startswith, upper/lower, isupper    *)
(* and the regular expressions of the scanners are computed on the same    *)
(* characters the script sees.  A scanner is run one loop iteration per    *)
(* step: its local variables are the fields of the record `scan`.          *)
(* Python's None is the empty string: the scanners only test the optional  *)
(* locals for truthiness, and None and '' are both false.                  *)
(***************************************************************************)
EXTENDS Integers, Sequences, FiniteSets, TLC

VARIABLES
    author,    \* text_info['author']
    work,      \* text_info['title'], the `work` argument of chunk_text
    raw,       \* raw_text, the document as fetched
    pc,        \* where the run of chunk_text is
    variant,   \* the scanner chunk_text routed to
    text,      \* the text chunk_text hands to the scanner (after extract_content)
    scan,      \* the scanner's local variables
    chunks,    \* the scanner's list of (section, text) tuples
    result,    \* the list of chunk objects chunk_text returned
    uuids,     \* how many identifiers uuid.uuid4 has handed out
    qpc,           \* where the run of the scraper's main is
    total_pages,   \* what get_total_pages returned
    page_num,      \* the page main is at
    page,          \* the locals of scrape_quotes_from_page
    all_quotes,    \* main's list of the quotes of the pages scraped
    store,         \* the rows of the table philosophical_quotes
    upload,        \* the locals of upload_quotes_to_supabase
    failed_pages,  \* the pages whose scrape printed an error and gave []
    hash_in,       \* the arguments of the calls of generate_quote_hash to make
    hash_out,      \* the values of the calls of generate_quote_hash made
    writers,       \* the locals of the instances of upload_quotes_to_supabase
                   \* that run at the same time on one table
    batch,         \* the run of main of uploadTextsToSupabase.py over
                   \* PHILOSOPHICAL_TEXTS, with the requests it made and the
                   \* table philosophical_texts
    startup        \* the module-level start of a script

\* the variables of uploadTextsToSupabase.py
textVars == <<author, work, raw, pc, variant, text, scan, chunks, result, uuids>>

\* the variables of scrapePhilosophicalQuotesSelenium.py
quoteVars == <<qpc, total_pages, page_num, page, all_quotes, store, upload,
               failed_pages>>

\* the variables of the calls of generate_quote_hash on its own
hashVars == <<hash_in, hash_out>>

\* what a run of the upload of the texts leaves alone
otherVars == <<quoteVars, hashVars, writers, batch, startup>>

\* what a run of the scraper leaves alone
notQuoteVars == <<textVars, hashVars, writers, batch, startup>>

\* what the calls of generate_quote_hash on its own leave alone
notHashVars == <<textVars, quoteVars, writers, batch, startup>>

notWriterVars == <<textVars, hashVars, batch, startup>>

notBatchVars == <<textVars, quoteVars, hashVars, writers, startup>>

notStartupVars == <<textVars, quoteVars, hashVars, writers, batch>>

vars == <<textVars, quoteVars, hashVars, writers, batch, startup>>

(***************************************************************************)
(* Python's str operations.                                                *)
(***************************************************************************)
None == ""

Min(S) == CHOOSE x \in S : \A y \in S : x <= y

Max(S) == CHOOSE x \in S : \A y \in S : y <= x

\* s[i] for a 0-based index i
At(s, i) == SubSeq(s, i + 1, i + 1)

\* s[a:b] for 0 <= a and 0 <= b: the slice is clamped to the string
Slice(s, a, b) ==
    LET e == IF b > Len(s) THEN Len(s) ELSE b
    IN  IF a >= e THEN "" ELSE SubSeq(s, a + 1, e)

\* s[a:]
SliceFrom(s, a) == Slice(s, a, Len(s))

\* s.find(sub, start): the lowest 0-based index of sub at or after start, or -1
Find(s, sub, start) ==
    LET n == Len(sub)
        Here(i) == At(s, i) = At(sub, 0) /\ SubSeq(s, i + 1, i + n) = sub
        I == start..(Len(s) - n)
    IN  IF \E i \in I : Here(i)
        THEN CHOOSE i \in I : Here(i) /\ \A j \in start..(i - 1) : ~Here(j)
        ELSE -1

\* sub in s
Contains(s, sub) == Find(s, sub, 0) # -1

\* s.startswith(prefix)
StartsWith(s, prefix) ==
    /\ Len(prefix) <= Len(s)
    /\ SubSeq(s, 1, Len(prefix)) = prefix

Whitespace == {" ", "\n", "\t", "\r"}

\* s.strip()
Strip(s) ==
    LET n == Len(s)
        Kept(i) == SubSeq(s, i, i) \notin Whitespace
    IN  IF \E i \in 1..n : Kept(i)
        THEN SubSeq(s, CHOOSE i \in 1..n : Kept(i) /\ \A j \in 1..(i - 1) : ~Kept(j),
                       CHOOSE i \in 1..n : Kept(i) /\ \A j \in (i + 1)..n : ~Kept(j))
        ELSE ""

\* s.rstrip('.')
RStripDot(s) ==
    LET n == Len(s)
        Kept(i) == SubSeq(s, i, i) # "."
    IN  IF \E i \in 1..n : Kept(i)
        THEN SubSeq(s, 1, CHOOSE i \in 1..n : Kept(i) /\ \A j \in (i + 1)..n : ~Kept(j))
        ELSE ""

\* s.split(sep): left to right, without overlap
RECURSIVE Split(_, _)
Split(s, sep) ==
    LET p == Find(s, sep, 0)
    IN  IF p = -1 THEN <<s>>
        ELSE <<Slice(s, 0, p)>> \o Split(SliceFrom(s, p + Len(sep)), sep)

\* s.split(sep, 1)
Split1(s, sep) ==
    LET p == Find(s, sep, 0)
    IN  IF p = -1 THEN <<s>>
        ELSE <<Slice(s, 0, p), SliceFrom(s, p + Len(sep))>>

\* sep.join(parts)
RECURSIVE Join(_, _)
Join(parts, sep) ==
    IF parts = <<>> THEN ""
    ELSE IF Len(parts) = 1 THEN parts[1]
    ELSE parts[1] \o sep \o Join(Tail(parts), sep)

\* s.replace(old, ''), left to right
RECURSIVE Remove(_, _)
Remove(s, old) ==
    LET p == Find(s, old, 0)
    IN  IF p = -1 THEN s
        ELSE Slice(s, 0, p) \o Remove(SliceFrom(s, p + Len(old)), old)

UpperLetters == <<"A", "B", "C", "D", "E", "F", "G", "H", "I", "J", "K", "L", "M",
                  "N", "O", "P", "Q", "R", "S", "T", "U", "V", "W", "X", "Y", "Z">>

LowerLetters == <<"a", "b", "c", "d", "e", "f", "g", "h", "i", "j", "k", "l", "m",
                  "n", "o", "p", "q", "r", "s", "t", "u", "v", "w", "x", "y", "z">>

Digits == {"0", "1", "2", "3", "4", "5", "6", "7", "8", "9"}

IsUpperChar(c) == \E k \in 1..26 : UpperLetters[k] = c

IsLowerChar(c) == \E k \in 1..26 : LowerLetters[k] = c

UpperChar(c) ==
    IF IsLowerChar(c)
    THEN UpperLetters[CHOOSE k \in 1..26 : LowerLetters[k] = c]
    ELSE c

LowerChar(c) ==
    IF IsUpperChar(c)
    THEN LowerLetters[CHOOSE k \in 1..26 : UpperLetters[k] = c]
    ELSE c

\* s.upper()
RECURSIVE Upper(_)
Upper(s) == IF s = "" THEN "" ELSE UpperChar(At(s, 0)) \o Upper(SliceFrom(s, 1))

\* s.lower()
RECURSIVE Lower(_)
Lower(s) == IF s = "" THEN "" ELSE LowerChar(At(s, 0)) \o Lower(SliceFrom(s, 1))

\* s.isupper(): some cased character, and no lowercase one
IsUpper(s) ==
    /\ \E i \in 1..Len(s) : IsUpperChar(SubSeq(s, i, i))
    /\ \A i \in 1..Len(s) : ~IsLowerChar(SubSeq(s, i, i))

\* x in list
InList(x, list) == \E k \in 1..Len(list) : list[k] = x

\* any(k in s for k in list)
AnyIn(list, s) == \E k \in 1..Len(list) : Contains(s, list[k])

\* the length of the match of \[\d+\] at 0-based index i of s, or 0
BracketNumAt(s, i) ==
    IF At(s, i) # "[" THEN 0
    ELSE LET D == {j \in (i + 1)..(Len(s) - 1) : At(s, j) \notin Digits}
             e == IF D = {} THEN Len(s) ELSE Min(D)
         IN  IF e > i + 1 /\ e < Len(s) /\ At(s, e) = "]" THEN e + 1 - i ELSE 0

\* MatchFootnoteMarker matching no line
MatchFootnoteMarkerNever(s) == FALSE

\* re.match(r'^\[\d+\]', s)
MatchFootnoteMarker(s) == s # "" /\ BracketNumAt(s, 0) > 0

\* re.sub(r'\[\d+\]', '', s)
RECURSIVE SubBracketNum(_)
SubBracketNum(s) ==
    LET M == {i \in 0..(Len(s) - 1) : BracketNumAt(s, i) > 0}
    IN  IF M = {} THEN s
        ELSE LET p == Min(M)
             IN  Slice(s, 0, p) \o SubBracketNum(SliceFrom(s, p + BracketNumAt(s, p)))

(***************************************************************************)
(* extract_content and chunk_text.                                         *)
(***************************************************************************)
\* extract_content(text): the text between the line of "*** START OF" and
\* "*** END OF" when both are there, else the whole text; stripped
extract_content(t) ==
    LET start_idx == Find(t, "*** START OF", 0)
        end_idx == Find(t, "*** END OF", 0)
        nl_idx == Find(t, "\n", start_idx)
    IN  IF start_idx # -1 /\ end_idx # -1 /\ nl_idx # -1
        THEN Strip(Slice(t, nl_idx, end_idx))
        ELSE Strip(t)

\* Route with the Dialogues/Epistles test moved before the Morals test
RouteDialoguesFirst(w) ==
    IF Contains(w, "Meditations") THEN "chunk_marcus_meditations"
    ELSE IF Contains(w, "Dialogues") \/ Contains(w, "Epistles") THEN "chunk_seneca_dialogues"
    ELSE IF Contains(w, "Morals") THEN "chunk_seneca_morals"
    ELSE IF Contains(w, "Enchiridion") THEN "chunk_epictetus"
    ELSE IF Contains(w, "Republic") THEN "chunk_plato_republic"
    ELSE IF Contains(w, "Zarathustra") THEN "chunk_nietzsche"
    ELSE "chunk_seneca_morals"

\* the if/elif chain of chunk_text: the first keyword the title contains
Route(w) ==
    IF Contains(w, "Meditations") THEN "chunk_marcus_meditations"
    ELSE IF Contains(w, "Morals") THEN "chunk_seneca_morals"
    ELSE IF Contains(w, "Dialogues") \/ Contains(w, "Epistles") THEN "chunk_seneca_dialogues"
    ELSE IF Contains(w, "Enchiridion") THEN "chunk_epictetus"
    ELSE IF Contains(w, "Republic") THEN "chunk_plato_republic"
    ELSE IF Contains(w, "Zarathustra") THEN "chunk_nietzsche"
    ELSE "chunk_seneca_morals"

\* create_chunk_objects numbering the chunks from 1
create_chunk_objects_OneBased(cs, a, w, used) ==
    [k \in 1..Len(cs) |->
        [id |-> used + k, author |-> a, work |-> w,
         section |-> cs[k][1], text |-> cs[k][2], chunk_index |-> k]]

\* create_chunk_objects(chunks, author, work); the k-th identifier handed out
\* by uuid.uuid4 is the number k
create_chunk_objects(cs, a, w, used) ==
    [k \in 1..Len(cs) |->
        [id |-> used + k, author |-> a, work |-> w,
         section |-> cs[k][1], text |-> cs[k][2], chunk_index |-> k - 1]]

\* the lines every line-oriented scanner skips
\* IsBoilerplate without the test for links
IsBoilerplateNoUrl(line) ==
    AnyIn(<<"project gutenberg", "table of contents">>, Lower(line))

IsBoilerplate(line) ==
    AnyIn(<<"project gutenberg", "table of contents", "http://">>, Lower(line))

(***************************************************************************)
(* chunk_marcus_meditations.                                               *)
(***************************************************************************)
\* marcus_roman_numerals ending one numeral early
marcus_roman_numerals_ToLVII ==
  <<
    "I", "II", "III", "IV", "V", "VI", "VII", "VIII", "IX", "X",
    "XI", "XII", "XIII", "XIV", "XV", "XVI", "XVII", "XVIII", "XIX", "XX",
    "XXI", "XXII", "XXIII", "XXIV", "XXV", "XXVI", "XXVII", "XXVIII", "XXIX", "XXX",
    "XXXI", "XXXII", "XXXIII", "XXXIV", "XXXV", "XXXVI", "XXXVII", "XXXVIII", "XXXIX", "XL",
    "XLI", "XLII", "XLIII", "XLIV", "XLV", "XLVI", "XLVII", "XLVIII", "XLIX", "L",
    "LI", "LII", "LIII", "LIV", "LV", "LVI", "LVII"
  >>

marcus_roman_numerals ==
  <<
    "I", "II", "III", "IV", "V", "VI", "VII", "VIII", "IX", "X",
    "XI", "XII", "XIII", "XIV", "XV", "XVI", "XVII", "XVIII", "XIX", "XX",
    "XXI", "XXII", "XXIII", "XXIV", "XXV", "XXVI", "XXVII", "XXVIII", "XXIX", "XXX",
    "XXXI", "XXXII", "XXXIII", "XXXIV", "XXXV", "XXXVI", "XXXVII", "XXXVIII", "XXXIX", "XL",
    "XLI", "XLII", "XLIII", "XLIV", "XLV", "XLVI", "XLVII", "XLVIII", "XLIX", "L",
    "LI", "LII", "LIII", "LIV", "LV", "LVI", "LVII", "LVIII"
  >>

marcus_ordinals ==
    <<"FIRST", "SECOND", "THIRD", "FOURTH", "FIFTH", "SIXTH", "SEVENTH",
      "EIGHTH", "NINTH", "TENTH", "ELEVENTH", "TWELFTH">>

marcus_start_marker == "THE FIRST BOOK"

marcus_actual_start_marker == "I. Of my grandfather"

marcus_end_marker ==
    "As for thyself; thou hast to do with neither. Go thy ways then well pleased and contented: for so is He that dismisseth thee."

\* both start markers are there: start_pos and actual_start_pos are not -1
MarcusFound(t) ==
    LET start_pos == Find(t, marcus_start_marker, 0)
    IN  /\ start_pos # -1
        /\ Find(t, marcus_actual_start_marker, start_pos) # -1

\* MarcusFiltered cutting at actual_start_pos instead of start_pos
MarcusFilteredFromActual(t) ==
    LET start_pos == Find(t, marcus_start_marker, 0)
        actual_start_pos == Find(t, marcus_actual_start_marker, start_pos)
        end_pos == Find(t, marcus_end_marker, 0)
    IN  IF end_pos = -1 THEN SliceFrom(t, actual_start_pos)
        ELSE Slice(t, actual_start_pos, end_pos)

\* filtered_text: from start_pos to the end marker, or to the end of the text
MarcusFiltered(t) ==
    LET start_pos == Find(t, marcus_start_marker, 0)
        end_pos == Find(t, marcus_end_marker, 0)
    IN  IF end_pos = -1 THEN SliceFrom(t, start_pos)
        ELSE Slice(t, start_pos, end_pos)

\* a paragraph whose first line is a book header
MarcusIsBookHeader(first_line) ==
    LET first_line_upper == Upper(first_line)
    IN  /\ Contains(first_line_upper, "BOOK")
        /\ AnyIn(marcus_ordinals, first_line_upper)

\* MarcusPara keeping the first book header it met as current_book
MarcusParaStaleBook(para0, current_book, cs) ==
    LET para == Strip(para0)
        first_line == Strip(Split(para, "\n")[1])
        first_word == Split(Strip(Split(para, "\n")[1]), ".")[1]
    IN  IF para = "" THEN [current_book |-> current_book, chunks |-> cs]
        ELSE IF MarcusIsBookHeader(first_line)
        THEN [current_book |-> IF current_book = None THEN first_line ELSE current_book,
              chunks |-> cs]
        ELSE IF current_book = None
        THEN [current_book |-> current_book, chunks |-> cs]
        ELSE IF InList(first_word, marcus_roman_numerals)
        THEN [current_book |-> current_book,
              chunks |-> Append(cs, <<current_book \o " - Section " \o first_word, para>>)]
        ELSE [current_book |-> current_book, chunks |-> cs]

\* the body of the loop over the paragraphs: the new current_book and chunks
MarcusPara(para0, current_book, cs) ==
    LET para == Strip(para0)
        first_line == Strip(Split(para, "\n")[1])
        first_word == Split(Strip(Split(para, "\n")[1]), ".")[1]
    IN  IF para = "" THEN [current_book |-> current_book, chunks |-> cs]
        ELSE IF MarcusIsBookHeader(first_line)
        THEN [current_book |-> first_line, chunks |-> cs]
        ELSE IF current_book = None
        THEN [current_book |-> current_book, chunks |-> cs]
        ELSE IF InList(first_word, marcus_roman_numerals)
        THEN [current_book |-> current_book,
              chunks |-> Append(cs, <<current_book \o " - Section " \o first_word, para>>)]
        ELSE [current_book |-> current_book, chunks |-> cs]

(***************************************************************************)
(* chunk_seneca_morals.                                                    *)
(***************************************************************************)
morals_start_marker == "SENECA OF BENEFITS"

\* len(full_text) > 100
morals_min_length == 100

\* len(line) < 20 of a chapter header
chapter_header_max == 20

\* len(line) < 10: a very short line
short_line == 10

\* section_name of the chapter being saved
MoralsLabel(s) ==
    s.current_main_section \o " - " \o s.current_chapter
        \o (IF s.current_chapter_title # None
            THEN " - " \o s.current_chapter_title ELSE "")

\* MoralsFlush naming the main section whose heading is the line at hand
MoralsFlushNewSection(s, cs) ==
    IF s.current_chapter # None /\ s.chapter_content # <<>>
    THEN LET full_text == Strip(Join(s.chapter_content, "\n"))
             arriving == IF s.i < Len(s.lines) THEN Strip(s.lines[s.i + 1]) ELSE ""
         IN  IF Len(full_text) > morals_min_length
             THEN Append(cs, <<MoralsLabel(IF StartsWith(arriving, "SENECA OF ")
                                           THEN [s EXCEPT !.current_main_section = arriving]
                                           ELSE s), full_text>>)
             ELSE cs
    ELSE cs

\* "Save previous chapter if exists": the new chunks
MoralsFlush(s, cs) ==
    IF s.current_chapter # None /\ s.chapter_content # <<>>
    THEN LET full_text == Strip(Join(s.chapter_content, "\n"))
         IN  IF Len(full_text) > morals_min_length
             THEN Append(cs, <<MoralsLabel(s), full_text>>)
             ELSE cs
    ELSE cs

\* MoralsLookAhead stopping at the CHAPTER and SENECA OF markers only
RECURSIVE MoralsLookAheadMarkersOnly(_, _, _)
MoralsLookAheadMarkersOnly(lines, j, title_lines) ==
    IF j >= Len(lines) THEN [j |-> j, title_lines |-> title_lines]
    ELSE LET next_line == Strip(lines[j + 1])
         IN  IF next_line = "" THEN MoralsLookAheadMarkersOnly(lines, j + 1, title_lines)
             ELSE IF StartsWith(next_line, "CHAPTER ")
             THEN [j |-> j, title_lines |-> title_lines]
             ELSE IF StartsWith(next_line, "SENECA OF ")
             THEN [j |-> j, title_lines |-> title_lines]
             ELSE IF IsUpper(next_line)
             THEN MoralsLookAheadMarkersOnly(lines, j + 1, Append(title_lines, next_line))
             ELSE [j |-> j, title_lines |-> title_lines]

\* the look-ahead for the chapter title, from line j (0-based) on
RECURSIVE MoralsLookAhead(_, _, _)
MoralsLookAhead(lines, j, title_lines) ==
    IF j >= Len(lines) THEN [j |-> j, title_lines |-> title_lines]
    ELSE LET next_line == Strip(lines[j + 1])
         IN  IF next_line = "" THEN MoralsLookAhead(lines, j + 1, title_lines)
             ELSE IF StartsWith(next_line, "CHAPTER ")
             THEN [j |-> j, title_lines |-> title_lines]
             ELSE IF \/ StartsWith(next_line, "SENECA OF ")
                     \/ next_line \in {"TO THE READER.", "CONTENTS"}
             THEN [j |-> j, title_lines |-> title_lines]
             ELSE IF IsUpper(next_line)
             THEN MoralsLookAhead(lines, j + 1, Append(title_lines, next_line))
             ELSE [j |-> j, title_lines |-> title_lines]

MoralsIsChapterHeader(line) ==
    /\ StartsWith(line, "CHAPTER ")
    /\ Contains(line, ".")
    /\ Len(line) < chapter_header_max

\* MoralsLine keeping the chapter open at a heading without a title
MoralsLineKeepsUntitled(s, cs) ==
    LET line == Strip(s.lines[s.i + 1])
        look == MoralsLookAhead(s.lines, s.i + 1, <<>>)
    IN  IF StartsWith(line, "SENECA OF ")
        THEN [scan |-> [s EXCEPT !.current_main_section = line,
                                 !.current_chapter = None,
                                 !.current_chapter_title = None,
                                 !.chapter_content = <<>>,
                                 !.i = @ + 1],
              chunks |-> MoralsFlush(s, cs)]
        ELSE IF MoralsIsChapterHeader(line)
        THEN [scan |->
                IF look.title_lines # <<>>
                THEN [s EXCEPT !.current_chapter = Strip(Remove(line, ".")),
                               !.chapter_content = <<>>,
                               !.current_chapter_title = Join(look.title_lines, " "),
                               !.i = look.j]
                ELSE [s EXCEPT !.current_chapter = Strip(Remove(line, ".")),
                               !.chapter_content = <<>>,
                               !.i = @ + 1],
              chunks |-> MoralsFlush(s, cs)]
        ELSE IF line = "" \/ Len(line) < short_line
        THEN [scan |-> [s EXCEPT !.chapter_content =
                                     IF @ # <<>> THEN Append(@, line) ELSE @,
                                 !.i = @ + 1],
              chunks |-> cs]
        ELSE IF IsBoilerplate(line)
        THEN [scan |-> [s EXCEPT !.i = @ + 1], chunks |-> cs]
        ELSE [scan |-> [s EXCEPT !.chapter_content =
                                     IF s.current_main_section # None
                                     THEN Append(@, line) ELSE @,
                                 !.i = @ + 1],
              chunks |-> cs]

\* one iteration of `while i < len(lines)`: the new locals and chunks
MoralsLine(s, cs) ==
    LET line == Strip(s.lines[s.i + 1])
        look == MoralsLookAhead(s.lines, s.i + 1, <<>>)
    IN  IF StartsWith(line, "SENECA OF ")
        THEN [scan |-> [s EXCEPT !.current_main_section = line,
                                 !.current_chapter = None,
                                 !.current_chapter_title = None,
                                 !.chapter_content = <<>>,
                                 !.i = @ + 1],
              chunks |-> MoralsFlush(s, cs)]
        ELSE IF MoralsIsChapterHeader(line)
        THEN [scan |->
                IF look.title_lines # <<>>
                THEN [s EXCEPT !.current_chapter = Strip(Remove(line, ".")),
                               !.chapter_content = <<>>,
                               !.current_chapter_title = Join(look.title_lines, " "),
                               !.i = look.j]
                ELSE [s EXCEPT !.current_chapter = None,
                               !.chapter_content = <<>>,
                               !.i = @ + 1],
              chunks |-> MoralsFlush(s, cs)]
        ELSE IF line = "" \/ Len(line) < short_line
        THEN [scan |-> [s EXCEPT !.chapter_content =
                                     IF @ # <<>> THEN Append(@, line) ELSE @,
                                 !.i = @ + 1],
              chunks |-> cs]
        ELSE IF IsBoilerplate(line)
        THEN [scan |-> [s EXCEPT !.i = @ + 1], chunks |-> cs]
        ELSE [scan |-> [s EXCEPT !.chapter_content =
                                     IF s.current_main_section # None
                                     THEN Append(@, line) ELSE @,
                                 !.i = @ + 1],
              chunks |-> cs]

\* MoralsFinal saving the text of any main section that has no chapter
MoralsFinalAnySection(s, cs) ==
    IF s.current_chapter # None /\ s.chapter_content # <<>>
    THEN MoralsFlush(s, cs)
    ELSE IF s.current_main_section # None /\ s.chapter_content # <<>>
    THEN LET full_text == Strip(Join(s.chapter_content, "\n"))
         IN  IF Len(full_text) > morals_min_length
             THEN Append(cs, <<s.current_main_section, full_text>>)
             ELSE cs
    ELSE cs

\* MoralsFinal without the save of the last chapter
MoralsFinalForgotten(s, cs) == cs

\* "Don't forget the last chapter", and SENECA OF CLEMENCY without chapters
MoralsFinal(s, cs) ==
    IF s.current_chapter # None /\ s.chapter_content # <<>>
    THEN MoralsFlush(s, cs)
    ELSE IF /\ s.current_main_section # None
            /\ s.chapter_content # <<>>
            /\ Contains(s.current_main_section, "CLEMENCY")
    THEN LET full_text == Strip(Join(s.chapter_content, "\n"))
         IN  IF Len(full_text) > morals_min_length
             THEN Append(cs, <<s.current_main_section, full_text>>)
             ELSE cs
    ELSE cs

\* the locals as the loop starts, the body located from the start marker on
MoralsBegin(t) ==
    LET filtered_text == SliceFrom(t, Find(t, morals_start_marker, 0))
    IN  [filtered_text |-> filtered_text,
         lines |-> Split(filtered_text, "\n"),
         i |-> 0,
         current_main_section |-> None,
         current_chapter |-> None,
         current_chapter_title |-> None,
         chapter_content |-> <<>>]

\* the loop from the locals s on, and what follows it
RECURSIVE MoralsRun(_, _)
MoralsRun(s, cs) ==
    IF s.i < Len(s.lines)
    THEN MoralsRun(MoralsLine(s, cs).scan, MoralsLine(s, cs).chunks)
    ELSE MoralsFinal(s, cs)

\* chunk_seneca_morals(text, author, work): its (section, text) tuples
chunk_seneca_morals(t) ==
    IF Find(t, morals_start_marker, 0) = -1 THEN <<>>
    ELSE MoralsRun(MoralsBegin(t), <<>>)

(***************************************************************************)
(* chunk_seneca_dialogues.                                                 *)
(***************************************************************************)
dialogues_roman_numerals ==
  <<
    "I", "II", "III", "IV", "V", "VI", "VII", "VIII", "IX", "X",
    "XI", "XII", "XIII", "XIV", "XV", "XVI", "XVII", "XVIII", "XIX", "XX",
    "XXI", "XXII", "XXIII", "XXIV", "XXV", "XXVI", "XXVII", "XXVIII", "XXIX", "XXX",
    "XXXI", "XXXII", "XXXIII", "XXXIV", "XXXV", "XXXVI", "XXXVII", "XXXVIII", "XXXIX", "XL",
    "XLI", "XLII", "XLIII", "XLIV", "XLV", "XLVI", "XLVII", "XLVIII", "XLIX", "L",
    "LI", "LII", "LIII", "LIV", "LV", "LVI", "LVII", "LVIII", "LIX", "LX"
  >>

dialogues_start_marker == "THE FIRST BOOK OF THE DIALOGUES"

dialogues_end_marker == "how what is crooked may be straightened. . . ."

\* len(para_text) > 100
dialogues_min_length == 100

\* filtered_text before the footnote anchors are removed: from the start
\* marker to the end of the end marker, or to the end of the text
DialoguesFiltered(t) ==
    LET start_pos == Find(t, dialogues_start_marker, 0)
        end_pos == Find(t, dialogues_end_marker, 0)
    IN  IF end_pos = -1 THEN SliceFrom(t, start_pos)
        ELSE Slice(t, start_pos, end_pos + Len(dialogues_end_marker))

\* the length of the match of <sup>\[\d+\]</sup> at 0-based index i, or 0
SupAt(s, i) ==
    IF Slice(s, i, i + 5) # "<sup>" THEN 0
    ELSE LET n == BracketNumAt(s, i + 5)
         IN  IF n > 0 /\ Slice(s, i + 5 + n, i + 11 + n) = "</sup>"
             THEN n + 11 ELSE 0

\* the length of the match of <a[^>]*><sup>\[\d+\]</sup></a> at index i, or 0
AnchorAt(s, i) ==
    IF Slice(s, i, i + 2) # "<a" THEN 0
    ELSE LET g == Find(s, ">", i + 2)
             n == IF g = -1 THEN 0 ELSE SupAt(s, g + 1)
         IN  IF n > 0 /\ Slice(s, g + 1 + n, g + 5 + n) = "</a>"
             THEN g + 5 + n - i ELSE 0

\* re.sub(r'<a[^>]*><sup>\[\d+\]</sup></a>', '', s)
RECURSIVE SubAnchors(_)
SubAnchors(s) ==
    LET M == {i \in 0..(Len(s) - 1) : At(s, i) = "<" /\ AnchorAt(s, i) > 0}
    IN  IF M = {} THEN s
        ELSE LET p == Min(M)
             IN  Slice(s, 0, p) \o SubAnchors(SliceFrom(s, p + AnchorAt(s, p)))

\* re.sub(r'<sup>\[\d+\]</sup>', '', s)
RECURSIVE SubSups(_)
SubSups(s) ==
    LET M == {i \in 0..(Len(s) - 1) : At(s, i) = "<" /\ SupAt(s, i) > 0}
    IN  IF M = {} THEN s
        ELSE LET p == Min(M)
             IN  Slice(s, 0, p) \o SubSups(SliceFrom(s, p + SupAt(s, p)))

dialogues_ordinals ==
    <<"FIRST", "SECOND", "THIRD", "FOURTH", "FIFTH", "SIXTH", "SEVENTH",
      "EIGHTH", "NINTH", "TENTH", "ELEVENTH", "TWELFTH">>

\* re.match(r'THE (FIRST|...|TWELFTH) BOOK OF THE DIALOGUES', line)
DialoguesBookMatch(line) ==
    \E k \in 1..Len(dialogues_ordinals) :
        StartsWith(line, "THE " \o dialogues_ordinals[k] \o " BOOK OF THE DIALOGUES")

\* a header of one of the two kinds of book
DialoguesIsBookHeader(line) ==
    \/ DialoguesBookMatch(line)
    \/ Contains(line, "BOOK OF THE DIALOGUE OF L. ANNAEUS")

\* DialoguesSave measuring the paragraph before the footnote numbers are removed
DialoguesSaveUncleaned(s, cs) ==
    LET joined == Strip(Join(s.current_paragraph, "\n"))
    IN  IF Len(joined) > dialogues_min_length
        THEN Append(cs, <<s.current_book_title \o " - Paragraph "
                             \o s.current_paragraph_num, SubBracketNum(joined)>>)
        ELSE cs

\* the paragraph being saved, when it is long enough
DialoguesSave(s, cs) ==
    LET para_text == SubBracketNum(Strip(Join(s.current_paragraph, "\n")))
    IN  IF Len(para_text) > dialogues_min_length
        THEN Append(cs, <<s.current_book_title \o " - Paragraph "
                             \o s.current_paragraph_num, para_text>>)
        ELSE cs

\* line_start of a line
DialoguesLineStart(line) ==
    IF Contains(line, ".") THEN Strip(Split(line, ".")[1]) ELSE ""

\* a Roman numeral paragraph marker
DialoguesIsParagraphMarker(line) ==
    /\ InList(DialoguesLineStart(line), dialogues_roman_numerals)
    /\ Len(line) > Len(DialoguesLineStart(line)) + 2

\* DialoguesLine with the paragraph markers looked for before the footnote
\* mode is tested, a marker ending the footnote mode
DialoguesLineResumeAtNumeral(s, cs) ==
    LET line == Strip(s.lines[s.i + 1])
        open == s.current_paragraph # <<>> /\ s.current_paragraph_num # None
        next == [s EXCEPT !.i = @ + 1]
    IN  IF DialoguesIsBookHeader(line)
        THEN [scan |-> [next EXCEPT !.current_book = line,
                                    !.current_book_title = line,
                                    !.current_paragraph = <<>>,
                                    !.current_paragraph_num = None,
                                    !.in_footnotes = FALSE],
              chunks |-> IF s.current_book # None /\ open
                         THEN DialoguesSave(s, cs) ELSE cs]
        ELSE IF s.current_book = None
        THEN [scan |-> next, chunks |-> cs]
        ELSE IF MatchFootnoteMarker(line)
        THEN [scan |-> IF open
                       THEN [next EXCEPT !.current_paragraph = <<>>,
                                         !.current_paragraph_num = None,
                                         !.in_footnotes = TRUE]
                       ELSE [next EXCEPT !.in_footnotes = TRUE],
              chunks |-> IF open THEN DialoguesSave(s, cs) ELSE cs]
        ELSE IF DialoguesIsParagraphMarker(line)
        THEN [scan |-> [next EXCEPT !.current_paragraph_num = DialoguesLineStart(line),
                                    !.current_paragraph = <<line>>,
                                    !.in_footnotes = FALSE],
              chunks |-> IF open THEN DialoguesSave(s, cs) ELSE cs]
        ELSE IF s.in_footnotes
        THEN [scan |-> next, chunks |-> cs]
        ELSE IF line = "" \/ Len(line) < short_line
        THEN [scan |-> [next EXCEPT !.current_paragraph =
                                        IF @ # <<>> THEN Append(@, line) ELSE @],
              chunks |-> cs]
        ELSE IF IsBoilerplate(line)
        THEN [scan |-> next, chunks |-> cs]
        ELSE [scan |-> [next EXCEPT !.current_paragraph =
                                        IF @ # <<>> THEN Append(@, line) ELSE @],
              chunks |-> cs]

\* DialoguesLine with the paragraph left open at a footnote marker
DialoguesLineKeepsParagraph(s, cs) ==
    LET line == Strip(s.lines[s.i + 1])
        open == s.current_paragraph # <<>> /\ s.current_paragraph_num # None
        next == [s EXCEPT !.i = @ + 1]
    IN  IF DialoguesIsBookHeader(line)
        THEN [scan |-> [next EXCEPT !.current_book = line,
                                    !.current_book_title = line,
                                    !.current_paragraph = <<>>,
                                    !.current_paragraph_num = None,
                                    !.in_footnotes = FALSE],
              chunks |-> IF s.current_book # None /\ open
                         THEN DialoguesSave(s, cs) ELSE cs]
        ELSE IF s.current_book = None
        THEN [scan |-> next, chunks |-> cs]
        ELSE IF MatchFootnoteMarker(line)
        THEN [scan |-> [next EXCEPT !.in_footnotes = TRUE],
              chunks |-> IF open THEN DialoguesSave(s, cs) ELSE cs]
        ELSE IF s.in_footnotes
        THEN [scan |-> next, chunks |-> cs]
        ELSE IF DialoguesIsParagraphMarker(line)
        THEN [scan |-> [next EXCEPT !.current_paragraph_num = DialoguesLineStart(line),
                                    !.current_paragraph = <<line>>],
              chunks |-> IF open THEN DialoguesSave(s, cs) ELSE cs]
        ELSE IF line = "" \/ Len(line) < short_line
        THEN [scan |-> [next EXCEPT !.current_paragraph =
                                        IF @ # <<>> THEN Append(@, line) ELSE @],
              chunks |-> cs]
        ELSE IF IsBoilerplate(line)
        THEN [scan |-> next, chunks |-> cs]
        ELSE [scan |-> [next EXCEPT !.current_paragraph =
                                        IF @ # <<>> THEN Append(@, line) ELSE @],
              chunks |-> cs]

\* one iteration of `while i < len(lines)`: the new locals and chunks
DialoguesLine(s, cs) ==
    LET line == Strip(s.lines[s.i + 1])
        open == s.current_paragraph # <<>> /\ s.current_paragraph_num # None
        next == [s EXCEPT !.i = @ + 1]
    IN  IF DialoguesIsBookHeader(line)
        THEN [scan |-> [next EXCEPT !.current_book = line,
                                    !.current_book_title = line,
                                    !.current_paragraph = <<>>,
                                    !.current_paragraph_num = None,
                                    !.in_footnotes = FALSE],
              chunks |-> IF s.current_book # None /\ open
                         THEN DialoguesSave(s, cs) ELSE cs]
        ELSE IF s.current_book = None
        THEN [scan |-> next, chunks |-> cs]
        ELSE IF MatchFootnoteMarker(line)
        THEN [scan |-> IF open
                       THEN [next EXCEPT !.current_paragraph = <<>>,
                                         !.current_paragraph_num = None,
                                         !.in_footnotes = TRUE]
                       ELSE [next EXCEPT !.in_footnotes = TRUE],
              chunks |-> IF open THEN DialoguesSave(s, cs) ELSE cs]
        ELSE IF s.in_footnotes
        THEN [scan |-> next, chunks |-> cs]
        ELSE IF DialoguesIsParagraphMarker(line)
        THEN [scan |-> [next EXCEPT !.current_paragraph_num = DialoguesLineStart(line),
                                    !.current_paragraph = <<line>>],
              chunks |-> IF open THEN DialoguesSave(s, cs) ELSE cs]
        ELSE IF line = "" \/ Len(line) < short_line
        THEN [scan |-> [next EXCEPT !.current_paragraph =
                                        IF @ # <<>> THEN Append(@, line) ELSE @],
              chunks |-> cs]
        ELSE IF IsBoilerplate(line)
        THEN [scan |-> next, chunks |-> cs]
        ELSE [scan |-> [next EXCEPT !.current_paragraph =
                                        IF @ # <<>> THEN Append(@, line) ELSE @],
              chunks |-> cs]

\* "Don't forget the last paragraph"
DialoguesFinal(s, cs) ==
    IF /\ s.current_book # None
       /\ s.current_paragraph # <<>>
       /\ s.current_paragraph_num # None
       /\ ~s.in_footnotes
    THEN DialoguesSave(s, cs)
    ELSE cs

(***************************************************************************)
(* chunk_epictetus.                                                        *)
(***************************************************************************)
epictetus_roman_numerals ==
  <<
    "I", "II", "III", "IV", "V", "VI", "VII", "VIII", "IX", "X",
    "XI", "XII", "XIII", "XIV", "XV", "XVI", "XVII", "XVIII", "XIX", "XX",
    "XXI", "XXII", "XXIII", "XXIV", "XXV", "XXVI", "XXVII", "XXVIII", "XXIX", "XXX",
    "XXXI", "XXXII", "XXXIII", "XXXIV", "XXXV", "XXXVI", "XXXVII", "XXXVIII", "XXXIX", "XL",
    "XLI", "XLII", "XLIII", "XLIV", "XLV", "XLVI", "XLVII", "XLVIII", "XLIX", "L",
    "LI", "LII", "LIII", "LIV", "LV", "LVI", "LVII", "LVIII"
  >>

epictetus_start_marker == "There are things which are within our power"

epictetus_end_markers ==
    <<"\"Anytus and Melitus may kill me indeed; but hurt me they cannot.\"",
      "\"Anytus and Melitus may kill me indeed; but hurt me they cannot.\"",
      "Anytus and Melitus may kill me indeed; but hurt me they cannot.">>

\* len(full_text) > 50 and len(para) > 50
epictetus_min_length == 50

\* "Find and trim to the start marker": the text is kept whole without it
EpictetusTrimStart(t) ==
    LET start_pos == Find(t, epictetus_start_marker, 0)
    IN  IF start_pos # -1 THEN SliceFrom(t, start_pos) ELSE t

\* "Find and trim after the end marker": the first marker of the list found
EpictetusTrimEnd(t) ==
    LET F == {k \in 1..Len(epictetus_end_markers) :
                 Find(t, epictetus_end_markers[k], 0) # -1}
    IN  IF F = {} THEN t
        ELSE LET end_marker == epictetus_end_markers[Min(F)]
             IN  Slice(t, 0, Find(t, end_marker, 0) + Len(end_marker))

EpictetusIsBoilerplate(para) ==
    AnyIn(<<"project gutenberg", "contents", "http://", "footnote">>, Lower(para))

\* the section being saved, when it is long enough
EpictetusSave(s, cs) ==
    IF s.current_section # None /\ s.current_section_content # <<>>
    THEN LET full_text == Join(s.current_section_content, "\n\n")
         IN  IF Len(full_text) > epictetus_min_length
             THEN Append(cs, <<s.current_section, full_text>>)
             ELSE cs
    ELSE cs

\* EpictetusPara leaving the section open at a numeral paragraph
EpictetusParaKeepsSection(s, cs) ==
    LET para == Strip(s.paragraphs[s.i + 1])
        next == [s EXCEPT !.i = @ + 1]
    IN  IF para = "" THEN [scan |-> next, chunks |-> cs]
        ELSE IF EpictetusIsBoilerplate(para) THEN [scan |-> next, chunks |-> cs]
        ELSE IF InList(para, epictetus_roman_numerals)
        THEN [scan |-> next, chunks |-> EpictetusSave(s, cs)]
        ELSE IF s.current_section # None /\ Len(para) > epictetus_min_length
        THEN [scan |-> [next EXCEPT !.current_section_content = Append(@, para)],
              chunks |-> cs]
        ELSE [scan |-> next, chunks |-> cs]

\* one iteration of `for para in paragraphs`: the new locals and chunks
EpictetusPara(s, cs) ==
    LET para == Strip(s.paragraphs[s.i + 1])
        next == [s EXCEPT !.i = @ + 1]
    IN  IF para = "" THEN [scan |-> next, chunks |-> cs]
        ELSE IF EpictetusIsBoilerplate(para) THEN [scan |-> next, chunks |-> cs]
        ELSE IF InList(para, epictetus_roman_numerals)
        THEN [scan |-> [next EXCEPT !.current_section = "Section " \o para,
                                    !.current_section_content = <<>>],
              chunks |-> EpictetusSave(s, cs)]
        ELSE IF s.current_section # None /\ Len(para) > epictetus_min_length
        THEN [scan |-> [next EXCEPT !.current_section_content = Append(@, para)],
              chunks |-> cs]
        ELSE [scan |-> next, chunks |-> cs]

(***************************************************************************)
(* chunk_nietzsche.                                                        *)
(***************************************************************************)
nietzsche_roman_numerals ==
  <<
    "I", "II", "III", "IV", "V", "VI", "VII", "VIII", "IX", "X",
    "XI", "XII", "XIII", "XIV", "XV", "XVI", "XVII", "XVIII", "XIX", "XX",
    "XXI", "XXII", "XXIII", "XXIV", "XXV", "XXVI", "XXVII", "XXVIII", "XXIX", "XXX",
    "XXXI", "XXXII", "XXXIII", "XXXIV", "XXXV", "XXXVI", "XXXVII", "XXXVIII", "XXXIX", "XL",
    "XLI", "XLII", "XLIII", "XLIV", "XLV", "XLVI", "XLVII", "XLVIII", "XLIX", "L",
    "LI", "LII", "LIII", "LIV", "LV", "LVI", "LVII", "LVIII", "LIX", "LX",
    "LXI", "LXII", "LXIII", "LXIV", "LXV", "LXVI", "LXVII", "LXVIII", "LXIX", "LXX",
    "LXXI", "LXXII", "LXXIII", "LXXIV", "LXXV", "LXXVI", "LXXVII", "LXXVIII", "LXXIX", "LXXX"
  >>

nietzsche_start_marker == "I. THE THREE METAMORPHOSES."

nietzsche_end_marker == "coming out of gloomy mountains"

\* len(full_text) > 100
nietzsche_min_length == 100

\* NietzscheFiltered looking for the end marker after the start marker
NietzscheFilteredEndAfterStart(t) ==
    LET start_pos == Find(t, nietzsche_start_marker, 0)
        end_pos == Find(t, nietzsche_end_marker, start_pos)
        period == Find(t, ".", end_pos)
    IN  IF end_pos = -1 THEN SliceFrom(t, start_pos)
        ELSE IF period # -1 THEN Slice(t, start_pos, period + 1)
        ELSE SliceFrom(t, start_pos)

\* filtered_text: from the start marker to the period that follows the end
\* marker, or to the end of the text
NietzscheFiltered(t) ==
    LET start_pos == Find(t, nietzsche_start_marker, 0)
        end_pos == Find(t, nietzsche_end_marker, 0)
        period == Find(t, ".", end_pos)
    IN  IF end_pos = -1 THEN SliceFrom(t, start_pos)
        ELSE IF period # -1 THEN Slice(t, start_pos, period + 1)
        ELSE SliceFrom(t, start_pos)

\* a chapter header: a Roman numeral, a period, a title
NietzscheIsChapterHeader(line) ==
    /\ line # ""
    /\ Len(Split1(line, ".")) >= 2
    /\ InList(Strip(Split1(line, ".")[1]), nietzsche_roman_numerals)

\* NietzscheSave with >= for >
NietzscheSaveAtThreshold(s, cs) ==
    IF s.current_chapter # None /\ s.chapter_content # <<>>
    THEN LET full_text == Strip(Join(s.chapter_content, "\n"))
         IN  IF Len(full_text) >= nietzsche_min_length
             THEN Append(cs, <<"Chapter " \o s.current_chapter \o " - "
                                  \o s.current_chapter_title, full_text>>)
             ELSE cs
    ELSE cs

\* the chapter being saved, when it is long enough
NietzscheSave(s, cs) ==
    IF s.current_chapter # None /\ s.chapter_content # <<>>
    THEN LET full_text == Strip(Join(s.chapter_content, "\n"))
         IN  IF Len(full_text) > nietzsche_min_length
             THEN Append(cs, <<"Chapter " \o s.current_chapter \o " - "
                                  \o s.current_chapter_title, full_text>>)
             ELSE cs
    ELSE cs

\* one iteration of `while i < len(lines)`: the new locals and chunks
\* NietzscheLine never keeping a line shorter than short_line
NietzscheLineDropShort(s, cs) ==
    LET line == Strip(s.lines[s.i + 1])
        next == [s EXCEPT !.i = @ + 1]
    IN  IF NietzscheIsChapterHeader(line)
        THEN [scan |-> [next EXCEPT
                          !.current_chapter = Strip(Split1(line, ".")[1]),
                          !.current_chapter_title = RStripDot(Strip(Split1(line, ".")[2])),
                          !.chapter_content = <<>>],
              chunks |-> NietzscheSave(s, cs)]
        ELSE IF line = "" \/ Len(line) < short_line
        THEN [scan |-> next, chunks |-> cs]
        ELSE IF IsBoilerplate(line)
        THEN [scan |-> next, chunks |-> cs]
        ELSE [scan |-> [next EXCEPT !.chapter_content =
                                        IF s.current_chapter # None
                                        THEN Append(@, line) ELSE @],
              chunks |-> cs]

NietzscheLine(s, cs) ==
    LET line == Strip(s.lines[s.i + 1])
        next == [s EXCEPT !.i = @ + 1]
    IN  IF NietzscheIsChapterHeader(line)
        THEN [scan |-> [next EXCEPT
                          !.current_chapter = Strip(Split1(line, ".")[1]),
                          !.current_chapter_title = RStripDot(Strip(Split1(line, ".")[2])),
                          !.chapter_content = <<>>],
              chunks |-> NietzscheSave(s, cs)]
        ELSE IF line = "" \/ Len(line) < short_line
        THEN [scan |-> [next EXCEPT !.chapter_content =
                                        IF @ # <<>> THEN Append(@, line) ELSE @],
              chunks |-> cs]
        ELSE IF IsBoilerplate(line)
        THEN [scan |-> next, chunks |-> cs]
        ELSE [scan |-> [next EXCEPT !.chapter_content =
                                        IF s.current_chapter # None
                                        THEN Append(@, line) ELSE @],
              chunks |-> cs]

(***************************************************************************)
(* The documents a run is given: concatenations of a few fragments of a    *)
(* book's text, and some longer documents written out.                     *)
(***************************************************************************)
MaxFrags == 3

\* the concatenations of at most n fragments of pool
RECURSIVE Concats(_, _)
Concats(pool, n) ==
    IF n = 0 THEN {""}
    ELSE LET S == Concats(pool, n - 1)
         IN  S \cup {s \o f : s \in S, f \in pool}

\* a document as Project Gutenberg wraps it
Wrapped(bodies) ==
    {pre \o b \o post :
        pre \in {"", "Title page\n*** START OF THE EBOOK ***\n"},
        b \in bodies,
        post \in {"", "*** END OF THE EBOOK ***\nLicense\n"}}

MarcusFragments ==
    {"PREFACE...\n", "\n", "THE FIRST BOOK\n", "THE SECOND BOOK\n",
     "I. Of my grandfather, Something.\nMore text.\n", "I. Another.\n",
     marcus_end_marker \o "\n"}

MarcusScenarioA ==
    "PREFACE...\nTHE FIRST BOOK\nI. Of my grandfather, Something.\nMore text.\n\nTHE SECOND BOOK\nI. Another.\n"

MarcusScenarioB ==
    "PREFACE...\n\nTHE FIRST BOOK\n\nI. Of my grandfather, Something.\nMore text.\n\nTHE SECOND BOOK\n\nI. Another.\n"

MarcusScenarioToc ==
    "CONTENTS\n\nTHE FIRST BOOK\n\nII. Contents entry\n\nTHE SECOND BOOK\n\nTHE FIRST BOOK\n\nI. Of my grandfather, Something.\n"

\* a book whose sections go beyond the listed numerals
MarcusNumerals ==
    "THE FIRST BOOK\n\nI. Of my grandfather, Something.\n\nLVIII. Fifty-eighth.\n\nLIX. Fifty-ninth.\n\nLX. Sixtieth.\n"

\* a book with the end marker before it and after it
MarcusEndFirst ==
    marcus_end_marker \o "\n\n" \o MarcusScenarioB \o "\n" \o marcus_end_marker \o "\n"

MarcusDocs ==
    Concats(MarcusFragments, MaxFrags)
        \cup {MarcusNumerals, MarcusEndFirst}
        \cup {"THE FIRST BOOK\n\nI. Of my grandfather, Something.\n\n" \o d :
                 d \in Concats(MarcusFragments, MaxFrags - 1)}
        \cup Wrapped({MarcusScenarioA, MarcusScenarioB, MarcusScenarioToc})

\* a content line of 101 characters, and one of 100
L101 ==
    "It is the part of a wise man to bear with patience what he cannot mend, and to give thanks for the re"

L100 ==
    "It is the part of a wise man to bear with patience what he cannot mend, and to give thanks for the r"

MoralsFragments ==
    {"SENECA OF BENEFITS\n", "CHAPTER I.\nOF BENEFITS\nIN GENERAL\n", "CHAPTER II.\n",
     L101 \o "\n", L100 \o "\n", "SENECA OF CLEMENCY\n", "So it is.\n"}

MoralsScenario ==
    "CONTENTS\nSENECA OF BENEFITS\nCHAPTER I.\nCHAPTER II.\n\nSENECA OF BENEFITS\n\nCHAPTER I.\n\nOF BENEFITS\n"
        \o L101 \o "\nCHAPTER II.\nSEVERAL SORTS\n" \o L100 \o "\nSENECA OF CLEMENCY\n"
        \o L101 \o "\n"

\* a link line of 8 characters, and two lines of boilerplate
ShortLink == "http://x"

LinkLine == "See http://www.gutenberg.org for the licence of this electronic book."

GutenbergLine == "This eBook is provided by Project Gutenberg at no cost."

\* a chapter whose title is boilerplate, with boilerplate lines in its text
MoralsBoilerplate ==
    "SENECA OF BENEFITS\nCHAPTER I.\nPROJECT GUTENBERG\n" \o L101 \o "\n" \o ShortLink
        \o "\n" \o LinkLine \o "\n" \o GutenbergLine \o "\n"

\* a chapter whose title is followed by the line TO THE READER., and one
\* whose title is followed by the line CONTENTS
MoralsToTheReader ==
    "SENECA OF BENEFITS\nCHAPTER I.\n\nOF BENEFITS\nTO THE READER.\n" \o L101 \o "\n"

MoralsContents ==
    "SENECA OF BENEFITS\nCHAPTER I.\nOF BENEFITS\nIN GENERAL\nCONTENTS\n" \o L101 \o "\n"

\* a main section CLEMENCY with a titled chapter, then a CHAPTER heading
\* without a title and text after it
MoralsClemencyChapters ==
    "SENECA OF BENEFITS\nSENECA OF CLEMENCY\nCHAPTER I.\nOF MERCY\n" \o L101
        \o "\nCHAPTER II.\n" \o L101 \o "\n"

MoralsDocs ==
    Concats(MoralsFragments, MaxFrags)
        \cup {MoralsBoilerplate, MoralsToTheReader, MoralsContents, MoralsClemencyChapters}
        \cup {"SENECA OF BENEFITS\nCHAPTER I.\nOF BENEFITS\n" \o d :
                 d \in Concats(MoralsFragments, MaxFrags - 1)}
        \cup Wrapped({MoralsScenario})

\* a paragraph marker line of 101 characters, one of 100, and one of 101
\* that holds a footnote reference, 98 without it
D101 ==
    "I. It is the part of a wise man to bear with patience what he cannot mend, and to give thanks for the"

D100 ==
    "II. It is the part of a wise man to bear with patience what he cannot mend, and to give thanks for t"

D101Ref ==
    "III. Of anger[2] It is the part of a wise man to bear with patience what he cannot mend, and to gives"

\* a paragraph marker line of 103 characters, 100 without its footnote reference
D100Ref ==
    "II. It is the part[3] of a wise man to bear with patience what he cannot mend, and to give thanks for t"

DialoguesFragments ==
    {"THE FIRST BOOK OF THE DIALOGUES\n", "THE SECOND BOOK OF THE DIALOGUES\n",
     D101 \o "\n", D100 \o "\n", D101Ref \o "\n",
     "[1] A note of the translator.\n", "So it is.\n"}

DialoguesScenario ==
    "PREFACE\nTHE FIRST BOOK OF THE DIALOGUES\n" \o D101 \o "<sup>[1]</sup>\n" \o D100
        \o "\n[1] A note of the translator.\nMore of the note.\n" \o D101
        \o "\nTHE SECOND BOOK OF THE DIALOGUES\n" \o D101 \o "\n" \o dialogues_end_marker
        \o "\nAfter the end.\n"

\* paragraphs with footnote references, on both sides of the threshold
DialoguesScenarioRefs ==
    "THE FIRST BOOK OF THE DIALOGUES\n" \o D100Ref \o "\n" \o D101Ref \o "\n" \o D101 \o "\n"

\* a second paragraph marker line of 101 characters
D101II == D100 \o "h"

\* a book with two paragraphs and the footnotes after them
DialoguesTrailingNotes ==
    "PREFACE\nTHE FIRST BOOK OF THE DIALOGUES\n" \o D101 \o "\n" \o D101II
        \o "\n[1] A note of the translator.\nMore of the note.\n"

\* the same book with the footnotes between the two paragraphs
DialoguesInterleavedNotes ==
    "PREFACE\nTHE FIRST BOOK OF THE DIALOGUES\n" \o D101
        \o "\n[1] A note of the translator.\nMore of the note.\n" \o D101II \o "\n"

\* paragraph marker lines of 101 characters with high numerals
DLIX ==
    "LIX. It is the part of a wise man to bear with patience what he cannot mend, and to give thanks for t"

DLX ==
    "LX. It is the part of a wise man to bear with patience what he cannot mend, and to give thanks for th"

DLXI ==
    "LXI. It is the part of a wise man to bear with patience what he cannot mend, and to give thanks for t"

DialoguesNumerals ==
    "THE FIRST BOOK OF THE DIALOGUES\n" \o DLIX \o "\n" \o DLX \o "\n" \o DLXI \o "\n"

\* a paragraph marker line of 101 characters that holds a link
DLink ==
    "I. See http://www.gutenberg.org for the text. It is the part of a wise man to bear with patience what"

DialoguesBoilerplate ==
    "THE FIRST BOOK OF THE DIALOGUES\n" \o DLink \o "\n" \o ShortLink
        \o "\n" \o LinkLine \o "\n" \o GutenbergLine \o "\n"

\* a book with the end marker before it and in it
DialoguesEndFirst == dialogues_end_marker \o "\n" \o DialoguesScenario

DialoguesDocs ==
    Concats(DialoguesFragments, MaxFrags)
        \cup {DialoguesNumerals, DialoguesBoilerplate, DialoguesEndFirst}
        \cup {"THE FIRST BOOK OF THE DIALOGUES\n" \o D101 \o "\n" \o d :
                 d \in Concats(DialoguesFragments, MaxFrags - 1)}
        \cup Wrapped({DialoguesScenario, DialoguesScenarioRefs,
                     DialoguesTrailingNotes, DialoguesInterleavedNotes})

\* a paragraph of 51 characters, and one of 50
P51 ==
    "It is the part of a wise man to bear with patiences"

P50 ==
    "It is the part of a wise man to bear with patience"

EpictetusFragments ==
    {"The translator's preface is a paragraph of more than fifty characters.\n\n",
     epictetus_start_marker \o ", and there are things which are beyond our power.\n\n",
     "II\n\n", P51 \o "\n\n", P50 \o "\n\n",
     epictetus_end_markers[3] \o "\n\n", "\n"}

EpictetusScenario ==
    "THE ENCHIRIDION\n\n" \o epictetus_start_marker \o ", and there are things which are beyond our power.\n\nII\n\n"
        \o P50 \o "\n\nIII\n\n" \o P51 \o "\n\n" \o epictetus_end_markers[1]
        \o "\n\nIV\n\n" \o P51 \o "\n"

\* sections whose numerals go beyond the listed ones
EpictetusNumerals ==
    epictetus_start_marker \o ", and there are things which are beyond our power.\n\nLVIII\n\n"
        \o P51 \o "\n\nLIX\n\n" \o P51 \o "\n\nLX\n\n" \o P51 \o "\n"

\* paragraphs with the words of the boilerplate test
EpictetusBoilerplate ==
    epictetus_start_marker \o ", and there are things which are beyond our power.\n\n"
        \o "This footnote of more than fifty characters is taken for boilerplate.\n\n"
        \o LinkLine \o "\n\n" \o P51 \o "\n\nII\n\nThe Contents of the mind are of more than fifty characters.\n\n"
        \o P51 \o "\n"

EpictetusDocs ==
    Concats(EpictetusFragments, MaxFrags)
        \cup {EpictetusNumerals, EpictetusBoilerplate}
        \cup {epictetus_start_marker \o ".\n\n" \o d :
                 d \in Concats(EpictetusFragments, MaxFrags - 1)}
        \cup Wrapped({EpictetusScenario})

NietzscheFragments ==
    {"I. THE THREE METAMORPHOSES.\n", "II. THE ACADEMIC CHAIRS OF VIRTUE.\n",
     L101 \o "\n", L100 \o "\n", "So it is.\n",
     "glowing and strong, like a morning sun coming out of gloomy mountains.\n",
     "ZARATHUSTRA'S PROLOGUE\n"}

NietzscheScenario ==
    "CONTENTS\nI. THE THREE METAMORPHOSES.\n" \o L100 \o "\nII. THE ACADEMIC CHAIRS OF VIRTUE.\n"
        \o L101 \o "\nThus spake Zarathustra, coming out of gloomy mountains.\nAPPENDIX\n"
        \o L101 \o "\n"

\* chapters up to the last listed numeral and beyond
NietzscheNumerals ==
    "I. THE THREE METAMORPHOSES.\n" \o L101 \o "\nLX. THE SHADOW.\n" \o L101
        \o "\nLXXX. THE SIGN.\n" \o L101 \o "\nLXXXI. BEYOND THE LIST.\n" \o L101 \o "\n"

\* a chapter heading that is boilerplate, and boilerplate lines in a chapter
NietzscheBoilerplate ==
    "I. THE THREE METAMORPHOSES.\n" \o L101 \o "\n" \o ShortLink \o "\n" \o LinkLine
        \o "\n" \o GutenbergLine \o "\nII. TABLE OF CONTENTS.\n" \o L101 \o "\n"

\* a book with the end marker before it and in it: followed by a period,
\* and with no period before the start marker
NietzscheEndFirst == nietzsche_end_marker \o ".\n" \o NietzscheScenario

NietzscheEndFirstNoPeriod == nietzsche_end_marker \o "\n" \o NietzscheScenario

\* a book after "*** END OF" and between the two markers, and a book after
\* "*** END OF" with a last line "*** START OF" that no newline ends
WrappedEndFirst ==
    "*** END OF THE EBOOK ***\n*** START OF THE EBOOK ***\n" \o NietzscheScenario
        \o "*** END OF THE EBOOK ***\n"

WrappedEndFirstNoNewline ==
    "*** END OF THE EBOOK ***\n" \o NietzscheScenario \o "*** START OF THE EBOOK ***"

NietzscheDocs ==
    Concats(NietzscheFragments, MaxFrags)
        \cup {NietzscheNumerals, NietzscheBoilerplate, NietzscheEndFirst,
              NietzscheEndFirstNoPeriod, WrappedEndFirst, WrappedEndFirstNoNewline}
        \cup {"I. THE THREE METAMORPHOSES.\n" \o L101 \o "\n" \o d :
                 d \in Concats(NietzscheFragments, MaxFrags - 1)}
        \cup Wrapped({NietzscheScenario})

\* titles that are not in PHILOSOPHICAL_TEXTS, given documents written out
OtherWorks ==
    {"The Republic", "Some Unknown Work", "Morals and Dialogues", "Moral Epistles",
     "meditations", "Republic of Zarathustra"}

Inputs ==
    {[author |-> "Marcus Aurelius", work |-> "Meditations", raw |-> d] : d \in MarcusDocs}
    \cup {[author |-> "Seneca", work |-> "Seneca's Morals", raw |-> d] : d \in MoralsDocs}
    \cup {[author |-> "Seneca", work |-> "Minor Dialogues", raw |-> d] : d \in DialoguesDocs}
    \cup {[author |-> "Epictetus", work |-> "The Enchiridion", raw |-> d] : d \in EpictetusDocs}
    \cup {[author |-> "Friedrich Nietzsche", work |-> "Thus Spake Zarathustra", raw |-> d] :
            d \in NietzscheDocs}
    \cup {[author |-> "Anonymous", work |-> w, raw |-> d] :
            w \in OtherWorks, d \in {MoralsScenario, DialoguesScenario, NietzscheScenario}}

(***************************************************************************)
(* The run of chunk_text on one document.                                  *)
(***************************************************************************)
NoScan == [i |-> 0]

\* the locals of scrape_quotes_from_page and of upload_quotes_to_supabase
\* before they are called; element is the loop variable, the container or
\* the quote link of the iteration
NoElement == [quote_link |-> <<>>, author_link |-> <<>>]

NoPage ==
    [url |-> None, containers |-> FALSE, n |-> 0, element |-> NoElement,
     seen_on_page |-> {}, quotes |-> <<>>]

NoUpload == [i |-> 0, inserted_count |-> 0, skipped_count |-> 0, errors |-> 0]

\* chunk_text is not called
TextIdle ==
    /\ author = None /\ work = None /\ raw = None
    /\ pc = "idle"
    /\ variant = None
    /\ text = None
    /\ scan = NoScan
    /\ chunks = <<>>
    /\ result = <<>>
    /\ uuids = 0

\* no instance of upload_quotes_to_supabase runs beside main
WritersIdle == writers = <<>>

NoBatch == [pc |-> "idle"]

BatchIdle == batch = NoBatch

NoStartup == [pc |-> "idle"]

StartupIdle == startup = NoStartup

\* the scraper is not run
QuotesIdle ==
    /\ qpc = "idle"
    /\ total_pages = 0
    /\ page_num = 0
    /\ page = NoPage
    /\ all_quotes = <<>>
    /\ store = <<>>
    /\ upload = NoUpload
    /\ failed_pages = <<>>

\* generate_quote_hash is not called on its own
HashIdle ==
    /\ hash_in = <<>>
    /\ hash_out = <<>>

Init ==
    /\ \E inp \in Inputs :
          /\ author = inp.author
          /\ work = inp.work
          /\ raw = inp.raw
    /\ pc = "chunk_text"
    /\ variant = None
    /\ text = None
    /\ scan = NoScan
    /\ chunks = <<>>
    /\ result = <<>>
    /\ uuids = 0
    /\ QuotesIdle
    /\ HashIdle
    /\ WritersIdle
    /\ BatchIdle
    /\ StartupIdle

\* chunk_text: extract the content, pick the scanner
chunk_text ==
    /\ pc = "chunk_text"
    /\ text' = extract_content(raw)
    /\ variant' = Route(work)
    /\ pc' = "call"
    /\ UNCHANGED <<author, work, raw, scan, chunks, result, uuids>>
    /\ UNCHANGED otherVars

\* return create_chunk_objects(chunks, author, work)
Return(cs) ==
    /\ result' = create_chunk_objects(cs, author, work, uuids)
    /\ uuids' = uuids + Len(cs)
    /\ chunks' = cs
    /\ pc' = "returned"

\* chunk_plato_republic is defined nowhere: the call raises NameError, which
\* the try/except of main catches
chunk_plato_republic ==
    /\ pc = "call"
    /\ variant = "chunk_plato_republic"
    /\ pc' = "raised"
    /\ UNCHANGED <<author, work, raw, variant, text, scan, chunks, result, uuids>>
    /\ UNCHANGED otherVars

\* chunk_marcus_meditations up to its loop: locate the body, split it
MarcusStart ==
    /\ pc = "call"
    /\ variant = "chunk_marcus_meditations"
    /\ IF MarcusFound(text)
       THEN /\ LET filtered_text == MarcusFiltered(text)
               IN  scan' = [filtered_text |-> filtered_text,
                            paragraphs |-> Split(filtered_text, "\n\n"),
                            i |-> 0,
                            current_book |-> None]
            /\ pc' = "loop"
            /\ UNCHANGED <<chunks, result, uuids>>
       ELSE /\ Return(<<>>)
            /\ UNCHANGED scan
    /\ UNCHANGED <<author, work, raw, variant, text>>
    /\ UNCHANGED otherVars

\* one iteration of `for para in paragraphs`
MarcusLoop ==
    /\ pc = "loop"
    /\ variant = "chunk_marcus_meditations"
    /\ scan.i < Len(scan.paragraphs)
    /\ LET r == MarcusPara(scan.paragraphs[scan.i + 1], scan.current_book, chunks)
       IN  /\ scan' = [scan EXCEPT !.i = @ + 1, !.current_book = r.current_book]
           /\ chunks' = r.chunks
    /\ UNCHANGED <<author, work, raw, pc, variant, text, result, uuids>>
    /\ UNCHANGED otherVars

\* the loop is over
MarcusReturn ==
    /\ pc = "loop"
    /\ variant = "chunk_marcus_meditations"
    /\ scan.i = Len(scan.paragraphs)
    /\ Return(chunks)
    /\ UNCHANGED <<author, work, raw, variant, text, scan>>
    /\ UNCHANGED otherVars

\* chunk_seneca_morals up to its loop
MoralsStart ==
    /\ pc = "call"
    /\ variant = "chunk_seneca_morals"
    /\ IF Find(text, morals_start_marker, 0) # -1
       THEN /\ scan' = MoralsBegin(text)
            /\ pc' = "loop"
            /\ UNCHANGED <<chunks, result, uuids>>
       ELSE /\ Return(<<>>)
            /\ UNCHANGED scan
    /\ UNCHANGED <<author, work, raw, variant, text>>
    /\ UNCHANGED otherVars

\* one iteration of `while i < len(lines)`
MoralsLoop ==
    /\ pc = "loop"
    /\ variant = "chunk_seneca_morals"
    /\ scan.i < Len(scan.lines)
    /\ LET r == MoralsLine(scan, chunks)
       IN  /\ scan' = r.scan
           /\ chunks' = r.chunks
    /\ UNCHANGED <<author, work, raw, pc, variant, text, result, uuids>>
    /\ UNCHANGED otherVars

\* after the loop: the last chapter, then the return
MoralsReturn ==
    /\ pc = "loop"
    /\ variant = "chunk_seneca_morals"
    /\ scan.i >= Len(scan.lines)
    /\ Return(MoralsFinal(scan, chunks))
    /\ UNCHANGED <<author, work, raw, variant, text, scan>>
    /\ UNCHANGED otherVars

\* chunk_seneca_dialogues up to its loop
DialoguesStart ==
    /\ pc = "call"
    /\ variant = "chunk_seneca_dialogues"
    /\ IF Find(text, dialogues_start_marker, 0) # -1
       THEN /\ LET filtered_text == DialoguesFiltered(text)
               IN  scan' = [filtered_text |-> filtered_text,
                            lines |-> Split(SubSups(SubAnchors(filtered_text)), "\n"),
                            i |-> 0,
                            current_book |-> None,
                            current_book_title |-> None,
                            current_paragraph |-> <<>>,
                            current_paragraph_num |-> None,
                            in_footnotes |-> FALSE]
            /\ pc' = "loop"
            /\ UNCHANGED <<chunks, result, uuids>>
       ELSE /\ Return(<<>>)
            /\ UNCHANGED scan
    /\ UNCHANGED <<author, work, raw, variant, text>>
    /\ UNCHANGED otherVars

\* one iteration of `while i < len(lines)`
DialoguesLoop ==
    /\ pc = "loop"
    /\ variant = "chunk_seneca_dialogues"
    /\ scan.i < Len(scan.lines)
    /\ LET r == DialoguesLine(scan, chunks)
       IN  /\ scan' = r.scan
           /\ chunks' = r.chunks
    /\ UNCHANGED <<author, work, raw, pc, variant, text, result, uuids>>
    /\ UNCHANGED otherVars

\* after the loop: the last paragraph, then the return
DialoguesReturn ==
    /\ pc = "loop"
    /\ variant = "chunk_seneca_dialogues"
    /\ scan.i = Len(scan.lines)
    /\ Return(DialoguesFinal(scan, chunks))
    /\ UNCHANGED <<author, work, raw, variant, text, scan>>
    /\ UNCHANGED otherVars

\* chunk_epictetus up to its loop: a missing marker is only warned about
EpictetusStart ==
    /\ pc = "call"
    /\ variant = "chunk_epictetus"
    /\ LET filtered_text == EpictetusTrimEnd(EpictetusTrimStart(text))
       IN  scan' = [filtered_text |-> filtered_text,
                    paragraphs |-> Split(filtered_text, "\n\n"),
                    i |-> 0,
                    current_section |-> "Section I",
                    current_section_content |-> <<>>]
    /\ pc' = "loop"
    /\ UNCHANGED <<author, work, raw, variant, text, chunks, result, uuids>>
    /\ UNCHANGED otherVars

\* one iteration of `for para in paragraphs`
EpictetusLoop ==
    /\ pc = "loop"
    /\ variant = "chunk_epictetus"
    /\ scan.i < Len(scan.paragraphs)
    /\ LET r == EpictetusPara(scan, chunks)
       IN  /\ scan' = r.scan
           /\ chunks' = r.chunks
    /\ UNCHANGED <<author, work, raw, pc, variant, text, result, uuids>>
    /\ UNCHANGED otherVars

\* after the loop: the last section, then the return
EpictetusReturn ==
    /\ pc = "loop"
    /\ variant = "chunk_epictetus"
    /\ scan.i = Len(scan.paragraphs)
    /\ Return(EpictetusSave(scan, chunks))
    /\ UNCHANGED <<author, work, raw, variant, text, scan>>
    /\ UNCHANGED otherVars

\* chunk_nietzsche up to its loop
NietzscheStart ==
    /\ pc = "call"
    /\ variant = "chunk_nietzsche"
    /\ IF Find(text, nietzsche_start_marker, 0) # -1
       THEN /\ LET filtered_text == NietzscheFiltered(text)
               IN  scan' = [filtered_text |-> filtered_text,
                            lines |-> Split(filtered_text, "\n"),
                            i |-> 0,
                            current_chapter |-> None,
                            current_chapter_title |-> None,
                            chapter_content |-> <<>>]
            /\ pc' = "loop"
            /\ UNCHANGED <<chunks, result, uuids>>
       ELSE /\ Return(<<>>)
            /\ UNCHANGED scan
    /\ UNCHANGED <<author, work, raw, variant, text>>
    /\ UNCHANGED otherVars

\* one iteration of `while i < len(lines)`
NietzscheLoop ==
    /\ pc = "loop"
    /\ variant = "chunk_nietzsche"
    /\ scan.i < Len(scan.lines)
    /\ LET r == NietzscheLine(scan, chunks)
       IN  /\ scan' = r.scan
           /\ chunks' = r.chunks
    /\ UNCHANGED <<author, work, raw, pc, variant, text, result, uuids>>
    /\ UNCHANGED otherVars

\* after the loop: the last chapter, then the return
NietzscheReturn ==
    /\ pc = "loop"
    /\ variant = "chunk_nietzsche"
    /\ scan.i = Len(scan.lines)
    /\ Return(NietzscheSave(scan, chunks))
    /\ UNCHANGED <<author, work, raw, variant, text, scan>>
    /\ UNCHANGED otherVars

Next ==
    \/ chunk_text
    \/ chunk_plato_republic
    \/ MarcusStart
    \/ MarcusLoop
    \/ MarcusReturn
    \/ MoralsStart
    \/ MoralsLoop
    \/ MoralsReturn
    \/ DialoguesStart
    \/ DialoguesLoop
    \/ DialoguesReturn
    \/ EpictetusStart
    \/ EpictetusLoop
    \/ EpictetusReturn
    \/ NietzscheStart
    \/ NietzscheLoop
    \/ NietzscheReturn

Spec == Init /\ [][Next]_vars

(***************************************************************************)
(* scrapePhilosophicalQuotesSelenium.py.                                   *)
(***************************************************************************)
BASE_URL == "https://www.brainyquote.com/profession/quotes-by-philosophers"

\* the text of the share button, which a quote link can hold
share_text == "Share this Quote"

\* len(quote_text) < 15
min_quote_length == 15

\* len(author) > 2
author_longer_than == 2

\* quote_text[:50]
key_prefix == 50

\* hashlib.md5(combined.encode()).hexdigest(): the digest stands for the
\* string digested, two strings having two digests
md5(combined) == "md5<" \o combined \o ">"

\* generate_quote_hash without .lower()
generate_quote_hash_CaseSensitive(quote_text, a) ==
    md5(Strip(quote_text) \o "||" \o Strip(a))

generate_quote_hash(quote_text, a) ==
    md5(Lower(Strip(quote_text)) \o "||" \o Lower(Strip(a)))

\* a key of the whole quote text
quote_key_WholeText(quote_text, a) == quote_text \o "||" \o a

\* f"{quote_text[:50]}||{author}"
quote_key(quote_text, a) == Slice(quote_text, 0, key_prefix) \o "||" \o a

\* `if author and quote_text and len(author) > 2:` with >= for >
AppendQuoteAuthorOfTwo(p, quote_text, a) ==
    IF a # "" /\ quote_text # "" /\ Len(a) >= author_longer_than
    THEN IF quote_key(quote_text, a) \notin p.seen_on_page
         THEN [p EXCEPT !.seen_on_page = @ \cup {quote_key(quote_text, a)},
                        !.quotes = Append(@, [quote_text |-> quote_text,
                                              author |-> a,
                                              source_url |-> p.url])]
         ELSE p
    ELSE p

\* `if author and quote_text and len(author) > 2:` and what it guards
AppendQuote(p, quote_text, a) ==
    IF a # "" /\ quote_text # "" /\ Len(a) > author_longer_than
    THEN IF quote_key(quote_text, a) \notin p.seen_on_page
         THEN [p EXCEPT !.seen_on_page = @ \cup {quote_key(quote_text, a)},
                        !.quotes = Append(@, [quote_text |-> quote_text,
                                              author |-> a,
                                              source_url |-> p.url])]
         ELSE p
    ELSE p

\* FallbackLink keeping a link text that holds the share text, cleaned
FallbackLinkCleans(p, e) ==
    LET quote_text == Strip(e.quote_link[1])
    IN  IF quote_text = "" \/ Len(quote_text) < min_quote_length
        THEN p
        ELSE IF e.author_link = <<>> THEN p
        ELSE AppendQuote(p, Strip(Remove(quote_text, share_text)), Strip(e.author_link[1]))

\* one iteration of `for quote_link in quote_links`, the path without
\* containers; an element is a quote link and the author link found near
\* it, if any
FallbackLink(p, e) ==
    LET quote_text == Strip(e.quote_link[1])
    IN  IF quote_text = "" \/ Len(quote_text) < min_quote_length
             \/ Contains(quote_text, share_text)
        THEN p
        ELSE IF e.author_link = <<>> THEN p
        ELSE AppendQuote(p, Strip(Remove(quote_text, share_text)), Strip(e.author_link[1]))

\* one iteration of `for container in containers`; an element is a
\* container with the quote link and the author link found in it, if any
\* (find_element raises when there is none, and the iteration ends)
Container(p, e) ==
    IF e.quote_link = <<>> THEN p
    ELSE LET quote_text == Strip(Remove(Strip(e.quote_link[1]), share_text))
         IN  IF quote_text = "" \/ Len(quote_text) < min_quote_length
             THEN p
             ELSE IF e.author_link = <<>> THEN p
             ELSE AppendQuote(p, quote_text, Strip(e.author_link[1]))

\* upload_quotes_to_supabase inserting without the existence check
UploadOneUnchecked(quote, rows, u, select_ok, insert_ok) ==
    LET quote_hash == generate_quote_hash(quote.quote_text, quote.author)
    IN  IF ~select_ok \/ ~insert_ok
        THEN [store |-> rows, upload |-> [u EXCEPT !.i = @ + 1, !.errors = @ + 1]]
        ELSE [store |-> Append(rows, [quote_text |-> quote.quote_text,
                                      author |-> quote.author,
                                      source_url |-> quote.source_url,
                                      quote_hash |-> quote_hash]),
              upload |-> [u EXCEPT !.i = @ + 1, !.inserted_count = @ + 1]]

\* UploadOne with inserted_count += 1 before the insert
UploadOneCountsFirst(quote, rows, u, select_ok, insert_ok) ==
    LET quote_hash == generate_quote_hash(quote.quote_text, quote.author)
    IN  IF ~select_ok
        THEN [store |-> rows, upload |-> [u EXCEPT !.i = @ + 1, !.errors = @ + 1]]
        ELSE IF \E k \in 1..Len(rows) : rows[k].quote_hash = quote_hash
        THEN [store |-> rows, upload |-> [u EXCEPT !.i = @ + 1, !.skipped_count = @ + 1]]
        ELSE IF ~insert_ok
        THEN [store |-> rows, upload |-> [u EXCEPT !.i = @ + 1, !.inserted_count = @ + 1,
                                                   !.errors = @ + 1]]
        ELSE [store |-> Append(rows, [quote_text |-> quote.quote_text,
                                      author |-> quote.author,
                                      source_url |-> quote.source_url,
                                      quote_hash |-> quote_hash]),
              upload |-> [u EXCEPT !.i = @ + 1, !.inserted_count = @ + 1]]

\* one iteration of `for quote in quotes` of upload_quotes_to_supabase;
\* select_ok and insert_ok tell whether the calls of the store return or raise
UploadOne(quote, rows, u, select_ok, insert_ok) ==
    LET quote_hash == generate_quote_hash(quote.quote_text, quote.author)
    IN  IF ~select_ok
        THEN [store |-> rows, upload |-> [u EXCEPT !.i = @ + 1, !.errors = @ + 1]]
        ELSE IF \E k \in 1..Len(rows) : rows[k].quote_hash = quote_hash
        THEN [store |-> rows, upload |-> [u EXCEPT !.i = @ + 1, !.skipped_count = @ + 1]]
        ELSE IF ~insert_ok
        THEN [store |-> rows, upload |-> [u EXCEPT !.i = @ + 1, !.errors = @ + 1]]
        ELSE [store |-> Append(rows, [quote_text |-> quote.quote_text,
                                      author |-> quote.author,
                                      source_url |-> quote.source_url,
                                      quote_hash |-> quote_hash]),
              upload |-> [u EXCEPT !.i = @ + 1, !.inserted_count = @ + 1]]

(***************************************************************************)
(* What the site shows and what the table holds.                           *)
(***************************************************************************)
\* how many elements of a page are looked at
MaxElems == 2

\* how many quotes the pages of a run give at most
MaxQuotes == 3

\* the numbers of pages the site is taken to have
PageCounts == {1, 2}

\* a quote text of 20 characters, one of 15 and one of 14
Q20 == "Know thyself, always"

Q15 == "Know thyself..."

Q14 == "Know thyself.."

\* two quote texts with the same first 50 characters
Q60a ==
    "The unexamined life is not worth living for a man, as I said"

Q60b ==
    "The unexamined life is not worth living for a man, so he said"

\* the texts a quote link can have
LinkTexts ==
    {Q20, " " \o Q20 \o " ", "KNOW THYSELF, ALWAYS", Q14, "Hi", "",
     Q20 \o "\n" \o share_text, Q14 \o "\n" \o share_text, share_text, Q60a, Q60b}

\* the texts an author link can have
AuthorTexts == {" Plato ", "Li", ""}

\* the elements of a page: a quote link with the author link that goes with
\* it, either of which can be missing from a container
Elements ==
    {[quote_link |-> <<t>>, author_link |-> <<"Plato">>] : t \in LinkTexts}
        \cup {[quote_link |-> <<Q20>>, author_link |-> <<a>>] : a \in AuthorTexts}
        \cup {[quote_link |-> <<Q20>>, author_link |-> <<>>],
              [quote_link |-> <<>>, author_link |-> <<"Plato">>],
              [quote_link |-> <<Q15>>, author_link |-> <<"Lao">>],
              [quote_link |-> <<"Hi">>, author_link |-> <<"Li">>]}

\* the row upload_quotes_to_supabase makes of a quote
Row(quote_text, a, url) ==
    [quote_text |-> quote_text, author |-> a, source_url |-> url,
     quote_hash |-> generate_quote_hash(quote_text, a)]

\* the tables the run starts with: empty, or holding a quote of an earlier run
Stores == {<<>>, <<Row(Q20, "Plato", BASE_URL)>>}

\* the url of page n
PageUrl(n) == IF n = 1 THEN BASE_URL ELSE BASE_URL \o "_" \o ToString(n)

(***************************************************************************)
(* A run of main of the scraper.                                           *)
(***************************************************************************)
QuotesInit ==
    /\ qpc = "main"
    /\ total_pages = 0
    /\ page_num = 0
    /\ page = NoPage
    /\ all_quotes = <<>>
    /\ store \in Stores
    /\ upload = NoUpload
    /\ failed_pages = <<>>
    /\ HashIdle
    /\ TextIdle
    /\ WritersIdle
    /\ BatchIdle
    /\ StartupIdle

\* get_total_pages: the highest page number of the pagination (the default
\* when it cannot be read is one of the numbers)
get_total_pages ==
    /\ qpc = "main"
    /\ \E n \in PageCounts : total_pages' = n
    /\ page_num' = 1
    /\ qpc' = "page"
    /\ UNCHANGED <<page, all_quotes, store, upload, failed_pages>>
    /\ UNCHANGED notQuoteVars

\* a browser started for a page that printed an error: such a call gives no
\* quote and main ends
ScrapeFailsEndsMain ==
    /\ qpc = "page"
    /\ page_num <= total_pages
    /\ page_num' = page_num + 1
    /\ failed_pages' = Append(failed_pages, page_num)
    /\ qpc' = "done"
    /\ UNCHANGED <<total_pages, page, all_quotes, store, upload>>
    /\ UNCHANGED notQuoteVars

\* the browser for the page count cannot be started (line 253): the except
\* of main prints the error and main ends
MainFails ==
    /\ qpc = "main"
    /\ qpc' = "done"
    /\ UNCHANGED <<total_pages, page_num, page, all_quotes, store, upload, failed_pages>>
    /\ UNCHANGED notQuoteVars

\* scrape_quotes_from_page up to its loop: the page is loaded, and has
\* containers or not
ScrapeOpen ==
    /\ qpc = "page"
    /\ page_num <= total_pages
    /\ \E c \in BOOLEAN :
          page' = [url |-> PageUrl(page_num), containers |-> c, n |-> 0,
                   element |-> NoElement, seen_on_page |-> {}, quotes |-> <<>>]
    /\ qpc' = "elements"
    /\ UNCHANGED <<total_pages, page_num, all_quotes, store, upload, failed_pages>>
    /\ UNCHANGED notQuoteVars

\* the browser cannot be started or the page cannot be loaded:
\* scrape_single_page_with_fresh_browser returns []
ScrapeFails ==
    /\ qpc = "page"
    /\ page_num <= total_pages
    /\ page_num' = page_num + 1
    /\ failed_pages' = Append(failed_pages, page_num)
    /\ UNCHANGED <<qpc, total_pages, page, all_quotes, store, upload>>
    /\ UNCHANGED notQuoteVars

\* one iteration of the loop over the containers or over the quote links
ScrapeElement ==
    /\ qpc = "elements"
    /\ page.n < MaxElems
    /\ Len(all_quotes) + Len(page.quotes) < MaxQuotes
    /\ \E e \in Elements :
          /\ ~page.containers => e.quote_link # <<>>
          /\ page' = [(IF page.containers THEN Container(page, e)
                       ELSE FallbackLink(page, e)) EXCEPT !.n = @ + 1, !.element = e]
    /\ UNCHANGED <<qpc, total_pages, page_num, all_quotes, store, upload, failed_pages>>
    /\ UNCHANGED notQuoteVars

\* return quotes, which ends the life of the locals; all_quotes.extend(quotes)
ScrapeReturn ==
    /\ qpc = "elements"
    /\ all_quotes' = all_quotes \o page.quotes
    /\ page' = NoPage
    /\ page_num' = page_num + 1
    /\ qpc' = "page"
    /\ UNCHANGED <<total_pages, store, upload, failed_pages>>
    /\ UNCHANGED notQuoteVars

\* upload_quotes_to_supabase(all_quotes), up to its loop
UploadStart ==
    /\ qpc = "page"
    /\ page_num > total_pages
    /\ upload' = NoUpload
    /\ qpc' = "upload"
    /\ UNCHANGED <<total_pages, page_num, page, all_quotes, store, failed_pages>>
    /\ UNCHANGED notQuoteVars

\* one iteration of `for quote in quotes`
UploadQuote ==
    /\ qpc = "upload"
    /\ upload.i < Len(all_quotes)
    /\ \E select_ok \in BOOLEAN, insert_ok \in BOOLEAN :
          LET r == UploadOne(all_quotes[upload.i + 1], store, upload, select_ok, insert_ok)
          IN  /\ store' = r.store
              /\ upload' = r.upload
    /\ UNCHANGED <<qpc, total_pages, page_num, page, all_quotes, failed_pages>>
    /\ UNCHANGED notQuoteVars

\* return inserted_count, skipped_count
UploadReturn ==
    /\ qpc = "upload"
    /\ upload.i >= Len(all_quotes)
    /\ qpc' = "done"
    /\ UNCHANGED <<total_pages, page_num, page, all_quotes, store, upload, failed_pages>>
    /\ UNCHANGED notQuoteVars

QuotesNext ==
    \/ get_total_pages
    \/ MainFails
    \/ ScrapeOpen
    \/ ScrapeFails
    \/ ScrapeElement
    \/ ScrapeReturn
    \/ UploadStart
    \/ UploadQuote
    \/ UploadReturn

QuotesSpec == QuotesInit /\ [][QuotesNext]_vars

\* the process runs on: the waits of the browser time out and each loop goes
\* through a finite list
FairQuotesSpec == QuotesSpec /\ WF_vars(QuotesNext)

(***************************************************************************)
(* Calls of generate_quote_hash on quote texts and authors as they are     *)
(* given, not trimmed.                                                     *)
(***************************************************************************)
\* the quote texts and the authors of the calls
HashTexts ==
    {"A Quote.", " a quote. ", "a quote.", "A QUOTE.\n", "A Quote", "Another quote.", ""}

HashAuthors == {"Plato", "  PLATO  ", "plato", "Plat o", "Cato", ""}

\* two calls are to be made, and the first is then made again
HashInit ==
    /\ \E q1 \in HashTexts, a1 \in HashAuthors, q2 \in HashTexts, a2 \in HashAuthors :
          hash_in = <<<<q1, a1>>, <<q2, a2>>, <<q1, a1>>>>
    /\ hash_out = <<>>
    /\ QuotesIdle
    /\ TextIdle
    /\ WritersIdle
    /\ BatchIdle
    /\ StartupIdle

\* the next call
HashCall ==
    /\ Len(hash_out) < Len(hash_in)
    /\ hash_out' = Append(hash_out,
                          generate_quote_hash(hash_in[Len(hash_out) + 1][1],
                                              hash_in[Len(hash_out) + 1][2]))
    /\ UNCHANGED hash_in
    /\ UNCHANGED notHashVars

HashNext == HashCall

HashSpec == HashInit /\ [][HashNext]_vars

(***************************************************************************)
(* Two instances of upload_quotes_to_supabase at the same time on one      *)
(* table. The select and the insert of an iteration are two calls of the   *)
(* store, and a call of the other instance can come between them.          *)
(***************************************************************************)
\* the lists of quotes an instance is called with
WriterLists ==
    LET a == [quote_text |-> Q20, author |-> "Plato", source_url |-> BASE_URL]
        A == [quote_text |-> "KNOW THYSELF, ALWAYS", author |-> "Plato",
              source_url |-> BASE_URL \o "_2"]
        b == [quote_text |-> Q15, author |-> "Lao", source_url |-> BASE_URL]
    IN  {<<a>>, <<A>>, <<b>>, <<a, b>>, <<b, a>>, <<a, A>>}

\* the locals of an instance called with the list quotes
Writer(quotes) ==
    [quotes |-> quotes, i |-> 0, pc |-> "select",
     inserted_count |-> 0, skipped_count |-> 0, errors |-> 0]

\* the quote an instance is at
QuoteOf(w) == w.quotes[w.i + 1]

\* the existence check of an iteration (lines 205-211): the instance goes on
\* to its insert when the answer is empty
SelectQuote(w, rows, select_ok) ==
    IF ~select_ok
    THEN [w EXCEPT !.i = @ + 1, !.errors = @ + 1]
    ELSE IF \E k \in 1..Len(rows) :
               rows[k].quote_hash = generate_quote_hash(QuoteOf(w).quote_text, QuoteOf(w).author)
    THEN [w EXCEPT !.i = @ + 1, !.skipped_count = @ + 1]
    ELSE [w EXCEPT !.pc = "insert"]

\* the insert of the store looking for the hash itself
InsertQuoteIfAbsent(w, rows, insert_ok) ==
    IF ~insert_ok
    THEN [store |-> rows,
          writer |-> [w EXCEPT !.i = @ + 1, !.pc = "select", !.errors = @ + 1]]
    ELSE IF \E k \in 1..Len(rows) :
               rows[k].quote_hash = generate_quote_hash(QuoteOf(w).quote_text, QuoteOf(w).author)
    THEN [store |-> rows,
          writer |-> [w EXCEPT !.i = @ + 1, !.pc = "select", !.skipped_count = @ + 1]]
    ELSE [store |-> Append(rows, Row(QuoteOf(w).quote_text, QuoteOf(w).author,
                                     QuoteOf(w).source_url)),
          writer |-> [w EXCEPT !.i = @ + 1, !.pc = "select", !.inserted_count = @ + 1]]

\* the insert of an iteration (lines 213-222)
InsertQuote(w, rows, insert_ok) ==
    IF ~insert_ok
    THEN [store |-> rows,
          writer |-> [w EXCEPT !.i = @ + 1, !.pc = "select", !.errors = @ + 1]]
    ELSE [store |-> Append(rows, Row(QuoteOf(w).quote_text, QuoteOf(w).author,
                                     QuoteOf(w).source_url)),
          writer |-> [w EXCEPT !.i = @ + 1, !.pc = "select", !.inserted_count = @ + 1]]

WritersInit ==
    /\ \E q1 \in WriterLists, q2 \in WriterLists :
          writers = <<Writer(q1), Writer(q2)>>
    /\ qpc = "idle"
    /\ total_pages = 0
    /\ page_num = 0
    /\ page = NoPage
    /\ all_quotes = <<>>
    /\ store \in Stores
    /\ upload = NoUpload
    /\ failed_pages = <<>>
    /\ TextIdle
    /\ HashIdle
    /\ BatchIdle
    /\ StartupIdle

\* an instance makes its existence check
WriterSelects ==
    /\ \E p \in 1..Len(writers), select_ok \in BOOLEAN :
          /\ writers[p].pc = "select"
          /\ writers[p].i < Len(writers[p].quotes)
          /\ writers' = [writers EXCEPT ![p] = SelectQuote(@, store, select_ok)]
    /\ UNCHANGED <<quoteVars, notWriterVars>>

\* an instance makes its insert
WriterInserts ==
    /\ \E p \in 1..Len(writers), insert_ok \in BOOLEAN :
          /\ writers[p].pc = "insert"
          /\ LET r == InsertQuote(writers[p], store, insert_ok)
             IN  /\ store' = r.store
                 /\ writers' = [writers EXCEPT ![p] = r.writer]
    /\ UNCHANGED <<qpc, total_pages, page_num, page, all_quotes, upload, failed_pages>>
    /\ UNCHANGED notWriterVars

\* an instance returns
WriterReturns ==
    /\ \E p \in 1..Len(writers) :
          /\ writers[p].pc = "select"
          /\ writers[p].i >= Len(writers[p].quotes)
          /\ writers' = [writers EXCEPT ![p].pc = "done"]
    /\ UNCHANGED <<quoteVars, notWriterVars>>

WritersNext ==
    \/ WriterSelects
    \/ WriterInserts
    \/ WriterReturns

WritersSpec == WritersInit /\ [][WritersNext]_vars

(***************************************************************************)
(* main of uploadTextsToSupabase.py over PHILOSOPHICAL_TEXTS:              *)
(* fetch_gutenberg_text, chunk_text and upload_to_supabase for each        *)
(* document in turn. What a request, the chunking, the embedding and the   *)
(* insert of a batch come to is the choice of the step; the chunks of a    *)
(* document are numbered 1..n.                                             *)
(***************************************************************************)
batch_size == 20

marcus_meditations ==
    [title |-> "Meditations", author |-> "Marcus Aurelius", gutenberg_id |-> 2680]

epictetus_enchiridion ==
    [title |-> "The Enchiridion", author |-> "Epictetus", gutenberg_id |-> 45109]

nietzsche_zarathustra ==
    [title |-> "Thus Spake Zarathustra", author |-> "Friedrich Nietzsche",
     gutenberg_id |-> 1998]

\* the list as it stands, and the list with entries now commented out in it
PHILOSOPHICAL_TEXTS == <<nietzsche_zarathustra>>

TextLists ==
    {PHILOSOPHICAL_TEXTS,
     <<marcus_meditations, nietzsche_zarathustra>>,
     <<epictetus_enchiridion, nietzsche_zarathustra>>}

\* len(chunks) of the list chunk_text can return
ChunkCounts == {0, 1, 20, 21, 41}

HtmlUrl(id) ==
    "https://www.gutenberg.org/cache/epub/" \o ToString(id) \o "/pg"
        \o ToString(id) \o "-images.html"

TextUrl(id) ==
    "https://www.gutenberg.org/files/" \o ToString(id) \o "/" \o ToString(id)
        \o "-0.txt"

AltUrl(id) ==
    "https://www.gutenberg.org/cache/epub/" \o ToString(id) \o "/pg"
        \o ToString(id) \o ".txt"

\* the text the HTML branch returns: the text it extracted from the page
ParsedHtml(url) == "get_text(" \o url \o ")"

\* response.text of a plain-text answer
ResponseText(url) == "text(" \o url \o ")"

\* the document main is at
TextInfo(b) == b.texts[b.n]

\* an exception reaching main with the batch given up
ExceptAborts(b) == [b EXCEPT !.pc = "done"]

\* the except clause of main (lines 840-842): print and continue
Except(b) == [b EXCEPT !.pc = "main"]

\* the head of the loop of main (lines 822-823)
MainLoop(b) ==
    IF b.n < Len(b.texts)
    THEN [b EXCEPT !.n = @ + 1, !.pc = "fetch", !.raw_text = "",
                   !.chunks = <<>>, !.i = 0, !.total_uploaded = 0,
                   !.batches = <<>>]
    ELSE [b EXCEPT !.pc = "done"]

\* a failed HTML request going to the second text address at once
FetchHtmlSkipsText(b, ok) ==
    LET url == HtmlUrl(TextInfo(b).gutenberg_id)
        r   == [b EXCEPT !.requests = Append(@, url)]
    IN  IF ok
        THEN [r EXCEPT !.raw_text = ParsedHtml(url), !.pc = "chunk_text"]
        ELSE [r EXCEPT !.pc = "alt"]

\* the HTML branch of fetch_gutenberg_text (lines 76-126)
FetchHtml(b, ok) ==
    LET url == HtmlUrl(TextInfo(b).gutenberg_id)
        r   == [b EXCEPT !.requests = Append(@, url)]
    IN  IF ok
        THEN [r EXCEPT !.raw_text = ParsedHtml(url), !.pc = "chunk_text"]
        ELSE [r EXCEPT !.pc = "text"]

\* the first fallback of fetch_gutenberg_text (lines 128-135)
FetchText(b, ok) ==
    LET url == TextUrl(TextInfo(b).gutenberg_id)
        r   == [b EXCEPT !.requests = Append(@, url)]
    IN  IF ok
        THEN [r EXCEPT !.raw_text = ResponseText(url), !.pc = "chunk_text"]
        ELSE [r EXCEPT !.pc = "alt"]

\* the second fallback of fetch_gutenberg_text (lines 136-142): its failure
\* is raised to main
FetchAlt(b, ok) ==
    LET url == AltUrl(TextInfo(b).gutenberg_id)
        r   == [b EXCEPT !.requests = Append(@, url)]
    IN  IF ok
        THEN [r EXCEPT !.raw_text = ResponseText(url), !.pc = "chunk_text"]
        ELSE Except(r)

\* chunk_text and the test of its result in main (lines 831-835);
\* n is len(chunks), or -1 when chunk_text raises
ChunkResult(b, n) ==
    IF n < 0 THEN Except(b)
    ELSE IF n = 0 THEN [b EXCEPT !.pc = "main"]
    ELSE [b EXCEPT !.chunks = [k \in 1..n |-> k], !.pc = "upload",
                   !.i = 0, !.total_uploaded = 0, !.batches = <<>>]

\* chunks[i:i + batch_size]
BatchAt(b) ==
    SubSeq(b.chunks, b.i + 1,
           IF b.i + batch_size < Len(b.chunks) THEN b.i + batch_size
           ELSE Len(b.chunks))

\* the rows of the records of a batch
Records(b) ==
    [k \in 1..Len(BatchAt(b)) |->
        [work |-> TextInfo(b).title, chunk_index |-> BatchAt(b)[k]]]

\* a failed insert ending the upload of the document
UploadBatchBreaks(b, encode_ok, insert_ok) ==
    LET r == [b EXCEPT !.batches = Append(@, BatchAt(b))]
    IN  IF ~encode_ok THEN Except(r)
        ELSE IF insert_ok
        THEN [r EXCEPT !.table = @ \o Records(b),
                       !.total_uploaded = @ + Len(Records(b)),
                       !.i = @ + batch_size]
        ELSE [r EXCEPT !.i = Len(b.chunks)]

\* one turn of the loop of upload_to_supabase (lines 784-814); an error of
\* model.encode is outside the try and is raised to main
UploadBatch(b, encode_ok, insert_ok) ==
    LET r == [b EXCEPT !.batches = Append(@, BatchAt(b))]
    IN  IF ~encode_ok THEN Except(r)
        ELSE IF insert_ok
        THEN [r EXCEPT !.table = @ \o Records(b),
                       !.total_uploaded = @ + Len(Records(b)),
                       !.i = @ + batch_size]
        ELSE [r EXCEPT !.i = @ + batch_size]

BatchInit ==
    /\ \E texts \in TextLists :
          batch = [pc |-> "main", texts |-> texts, n |-> 0, requests |-> <<>>,
                   raw_text |-> "", chunks |-> <<>>, i |-> 0,
                   total_uploaded |-> 0, batches |-> <<>>, table |-> <<>>]
    /\ TextIdle
    /\ QuotesIdle
    /\ HashIdle
    /\ WritersIdle
    /\ StartupIdle

\* main takes the next document, or ends
Main ==
    /\ batch.pc = "main"
    /\ batch' = MainLoop(batch)
    /\ UNCHANGED notBatchVars

\* fetch_gutenberg_text asks for the HTML rendering
FetchHtmlStep ==
    /\ batch.pc = "fetch"
    /\ \E ok \in BOOLEAN : batch' = FetchHtml(batch, ok)
    /\ UNCHANGED notBatchVars

\* fetch_gutenberg_text asks for <id>-0.txt
FetchTextStep ==
    /\ batch.pc = "text"
    /\ \E ok \in BOOLEAN : batch' = FetchText(batch, ok)
    /\ UNCHANGED notBatchVars

\* fetch_gutenberg_text asks for pg<id>.txt
FetchAltStep ==
    /\ batch.pc = "alt"
    /\ \E ok \in BOOLEAN : batch' = FetchAlt(batch, ok)
    /\ UNCHANGED notBatchVars

\* main calls chunk_text
ChunkTextStep ==
    /\ batch.pc = "chunk_text"
    /\ \E n \in ChunkCounts \cup {-1} : batch' = ChunkResult(batch, n)
    /\ UNCHANGED notBatchVars

\* upload_to_supabase embeds and inserts a batch
UploadBatchStep ==
    /\ batch.pc = "upload"
    /\ batch.i < Len(batch.chunks)
    /\ \E encode_ok \in BOOLEAN, insert_ok \in BOOLEAN :
          batch' = UploadBatch(batch, encode_ok, insert_ok)
    /\ UNCHANGED notBatchVars

\* upload_to_supabase returns
UploadToSupabaseReturns ==
    /\ batch.pc = "upload"
    /\ batch.i >= Len(batch.chunks)
    /\ batch' = [batch EXCEPT !.pc = "main"]
    /\ UNCHANGED notBatchVars

BatchNext ==
    \/ Main
    \/ FetchHtmlStep
    \/ FetchTextStep
    \/ FetchAltStep
    \/ ChunkTextStep
    \/ UploadBatchStep
    \/ UploadToSupabaseReturns

BatchSpec == BatchInit /\ [][BatchNext]_vars

\* the process runs on: a request times out after 30 seconds, and each loop
\* goes through a finite list
FairBatchSpec == BatchSpec /\ WF_vars(BatchNext)

(***************************************************************************)
(* The module-level start of the two scripts: load_dotenv, the reading of  *)
(* the configuration, the test of it, create_client, and then the work.    *)
(* A variable of the environment or of the .env file is <<>> when it is    *)
(* not there and <<v>> when it is there with the value v.                  *)
(***************************************************************************)
Scripts == {"uploadTextsToSupabase.py", "scrapePhilosophicalQuotesSelenium.py"}

EnvKeys == {"SUPABASE_URL", "SUPABASE_SERVICE_ROLE_KEY", "SUPABASE_ANON_KEY"}

EnvValues == {<<>>, <<"">>, <<"v">>}

\* load_dotenv(): a key of the .env file is set where the environment does
\* not have it
load_dotenv(environ, dotenv) ==
    [k \in EnvKeys |-> IF environ[k] # <<>> THEN environ[k] ELSE dotenv[k]]

\* os.getenv(key): None when the key is not there
getenv(environ, key) == IF environ[key] = <<>> THEN None ELSE environ[key][1]

\* a or b
Or(a, b) == IF a # None THEN a ELSE b

\* the credential a script reads
Credential(script, environ) ==
    IF script = "scrapePhilosophicalQuotesSelenium.py"
    THEN Or(getenv(environ, "SUPABASE_SERVICE_ROLE_KEY"),
            getenv(environ, "SUPABASE_ANON_KEY"))
    ELSE getenv(environ, "SUPABASE_ANON_KEY")

\* a test that lets one value alone through
MissingBoth(url, key) == url = None /\ key = None

\* not supabase_url or not supabase_key
Missing(url, key) == url = None \/ key = None

StartupInit ==
    /\ \E script \in Scripts, environ \in [EnvKeys -> EnvValues],
          dotenv \in [EnvKeys -> EnvValues] :
          startup = [pc |-> "load_dotenv", script |-> script, environ |-> environ,
                     dotenv |-> dotenv, supabase_url |-> None,
                     supabase_key |-> None, client |-> <<>>, status |-> 0,
                     working |-> FALSE]
    /\ TextIdle
    /\ QuotesIdle
    /\ HashIdle
    /\ WritersIdle
    /\ BatchIdle

\* load_dotenv()
LoadDotenv ==
    /\ startup.pc = "load_dotenv"
    /\ startup' = [startup EXCEPT !.environ = load_dotenv(@, startup.dotenv),
                                  !.pc = "getenv"]
    /\ UNCHANGED notStartupVars

\* the two values are read and tested; exit(1) when one is missing
ReadConfiguration ==
    /\ startup.pc = "getenv"
    /\ LET url == getenv(startup.environ, "SUPABASE_URL")
           key == Credential(startup.script, startup.environ)
       IN  startup' = [startup EXCEPT
                          !.supabase_url = url,
                          !.supabase_key = key,
                          !.status = IF Missing(url, key) THEN 1 ELSE 0,
                          !.pc = IF Missing(url, key) THEN "exited"
                                 ELSE "create_client"]
    /\ UNCHANGED notStartupVars

\* supabase = create_client(supabase_url, supabase_key)
CreateClient ==
    /\ startup.pc = "create_client"
    /\ startup' = [startup EXCEPT
                      !.client = <<startup.supabase_url, startup.supabase_key>>,
                      !.pc = "main"]
    /\ UNCHANGED notStartupVars

\* the rest of the module and main(): the fetches or the scrape, the
\* chunking, the calls of the store
BeginWork ==
    /\ startup.pc = "main"
    /\ startup' = [startup EXCEPT !.working = TRUE, !.pc = "running"]
    /\ UNCHANGED notStartupVars

StartupNext ==
    \/ LoadDotenv
    \/ ReadConfiguration
    \/ CreateClient
    \/ BeginWork

StartupSpec == StartupInit /\ [][StartupNext]_vars

(***************************************************************************)
(* The claims.                                                             *)
(***************************************************************************)
Returned == pc = "returned"

Marcus == variant = "chunk_marcus_meditations"

Morals == variant = "chunk_seneca_morals"

Dialogues == variant = "chunk_seneca_dialogues"

Epictetus == variant = "chunk_epictetus"

Nietzsche == variant = "chunk_nietzsche"

C2_ChunkIndexContiguous ==
    Returned =>
        /\ Len(result) = Len(chunks)
        /\ \A k \in 1..Len(result) : result[k].chunk_index = k - 1

\* a document whose first chapter is dropped as too short and whose second
\* chapter is returned, with index 0
C2_Witness ==
    /\ Returned
    /\ raw = NietzscheScenario
    /\ Len(result) = 1
    /\ result[1].section = "Chapter II - THE ACADEMIC CHAIRS OF VIRTUE"
    /\ result[1].chunk_index = 0

\* the minimum length C3 and C4 give each scanner
ClaimedThreshold ==
    IF Epictetus THEN epictetus_min_length
    ELSE IF Marcus THEN epictetus_min_length
    ELSE morals_min_length

\* C3 as stated: every chunk of every one of the five scanners is longer than
\* the scanner's threshold, which is at least 50.
C3_Original ==
    Returned => \A k \in 1..Len(result) : Len(result[k].text) > ClaimedThreshold

\* C3, amended: every chunk of the Seneca-morals, Seneca-dialogues and
\* Nietzsche scanners is longer than 100 characters and every chunk of the
\* Epictetus scanner longer than 50; the Marcus scanner has no threshold, its
\* chunks are only not empty.
C3_ChunkLongerThanThreshold ==
    Returned =>
        \A k \in 1..Len(result) :
            /\ Morals => Len(result[k].text) > morals_min_length
            /\ Dialogues => Len(result[k].text) > dialogues_min_length
            /\ Nietzsche => Len(result[k].text) > nietzsche_min_length
            /\ Epictetus => Len(result[k].text) > epictetus_min_length
            /\ Marcus => Len(result[k].text) > 0

C3_Witness ==
    /\ Returned
    /\ Nietzsche
    /\ \E k \in 1..Len(result) : Len(result[k].text) = nietzsche_min_length + 1

\* the unit the loop is at, stripped
Unit ==
    IF Marcus \/ Epictetus THEN Strip(scan.paragraphs[scan.i + 1])
    ELSE Strip(scan.lines[scan.i + 1])

\* the loop is over
AtEnd ==
    IF Marcus \/ Epictetus THEN scan.i >= Len(scan.paragraphs)
    ELSE scan.i >= Len(scan.lines)

\* the loop is at a structural marker, or over
AtMarkerOrEnd ==
    \/ AtEnd
    \/ Morals /\ (StartsWith(Unit, "SENECA OF ") \/ MoralsIsChapterHeader(Unit))
    \/ Dialogues /\ (DialoguesIsBookHeader(Unit) \/ DialoguesIsParagraphMarker(Unit))
    \/ Epictetus /\ InList(Unit, epictetus_roman_numerals)
    \/ Nietzsche /\ NietzscheIsChapterHeader(Unit)

\* a labelled section is open, with something in its buffer
SectionOpen ==
    \/ Morals /\ scan.current_chapter # None /\ scan.chapter_content # <<>>
    \/ Dialogues /\ scan.current_paragraph_num # None /\ scan.current_paragraph # <<>>
    \/ Epictetus /\ scan.current_section_content # <<>>
    \/ Nietzsche /\ scan.current_chapter # None /\ scan.chapter_content # <<>>

\* the buffer of the open section, joined and trimmed
Accumulated ==
    IF Morals \/ Nietzsche THEN Strip(Join(scan.chapter_content, "\n"))
    ELSE IF Dialogues THEN Strip(Join(scan.current_paragraph, "\n"))
    ELSE Join(scan.current_section_content, "\n\n")

\* the text the open section would be emitted with
Finalized == IF Dialogues THEN SubBracketNum(Accumulated) ELSE Accumulated

Threshold == IF Epictetus THEN epictetus_min_length ELSE morals_min_length

\* C4 as stated: at a structural marker or the end of input, an open section
\* whose accumulated text has threshold+1 characters is emitted, and one with
\* exactly threshold characters is not.
C4_Original ==
    [][(pc = "loop" /\ ~Marcus /\ SectionOpen /\ AtMarkerOrEnd) =>
          /\ Len(Accumulated) = Threshold + 1 => Len(chunks') = Len(chunks) + 1
          /\ Len(Accumulated) = Threshold => chunks' = chunks]_vars

\* the loop of the Epictetus scanner is at a paragraph of content
EpictetusAtContent ==
    /\ Epictetus
    /\ ~AtEnd
    /\ Unit # ""
    /\ ~EpictetusIsBoilerplate(Unit)
    /\ ~InList(Unit, epictetus_roman_numerals)

\* C4, amended: in the Seneca-morals, Seneca-dialogues, Epictetus and
\* Nietzsche scanners, at a structural marker or the end of input, an open
\* section whose text (the buffer joined and trimmed and, in Seneca-dialogues,
\* with the bracketed footnote numbers removed) has threshold+1 characters is
\* emitted with that text, and one with exactly threshold characters is not;
\* the Epictetus scanner applies its threshold to each paragraph as well: a
\* paragraph of 51 characters is added to the open section, one of 50 is not.
C4_ThresholdBoundary ==
    [][/\ (pc = "loop" /\ ~Marcus /\ SectionOpen /\ AtMarkerOrEnd) =>
             /\ Len(Finalized) = Threshold + 1 =>
                   /\ Len(chunks') = Len(chunks) + 1
                   /\ chunks'[Len(chunks')][2] = Finalized
             /\ Len(Finalized) = Threshold => chunks' = chunks
       /\ (pc = "loop" /\ EpictetusAtContent) =>
             /\ Len(Unit) = epictetus_min_length + 1 =>
                   scan'.current_section_content =
                       Append(scan.current_section_content, Unit)
             /\ Len(Unit) = epictetus_min_length =>
                   scan'.current_section_content = scan.current_section_content]_vars

\* both sides of the boundary have been met in the Seneca-dialogues scanner:
\* a paragraph of 101 characters is returned, and the loop is at a marker with
\* an open paragraph of 100
C4_Witness ==
    /\ Dialogues
    /\ pc = "loop"
    /\ SectionOpen
    /\ AtMarkerOrEnd
    /\ Len(Finalized) = Threshold
    /\ Len(chunks) = 1
    /\ Len(chunks[1][2]) = Threshold + 1

\* the start marker of the scanner chunk_text routed to
StartMarker ==
    IF Marcus THEN marcus_start_marker
    ELSE IF Morals THEN morals_start_marker
    ELSE IF Dialogues THEN dialogues_start_marker
    ELSE IF Epictetus THEN epictetus_start_marker
    ELSE nietzsche_start_marker

\* C5: a scanner whose start marker is not in the text it is given returns
\* no chunk.
C5_NoStartMarkerNoChunks ==
    (Returned /\ ~Contains(text, StartMarker)) => result = <<>>

\* C6 as stated, for extract_content: with "*** START OF" there and
\* "*** END OF" not, the located body is the text from the start marker (or
\* from the end of its line) onward.
C6_Original ==
    (pc = "call" /\ Contains(raw, "*** START OF") /\ ~Contains(raw, "*** END OF")) =>
        \/ text = Strip(SliceFrom(raw, Find(raw, "*** START OF", 0)))
        \/ text = Strip(SliceFrom(raw, Find(raw, "\n", Find(raw, "*** START OF", 0))))

\* the scanner has located its body and is about to start its loop
Located == pc = "loop" /\ scan.i = 0

\* C6, amended: in each scanner, when its start marker is found (in the Marcus
\* scanner both of them) and its end marker is not, the body scanned is the text
\* from the first occurrence of the start marker to the end; extract_content
\* returns the whole text, trimmed, when "*** END OF" is missing.
C6_BodyToEndOfText ==
    /\ (Located /\ Marcus /\ ~Contains(text, marcus_end_marker)) =>
          scan.filtered_text = SliceFrom(text, Find(text, marcus_start_marker, 0))
    /\ (Located /\ Morals) =>
          scan.filtered_text = SliceFrom(text, Find(text, morals_start_marker, 0))
    /\ (Located /\ Dialogues /\ ~Contains(text, dialogues_end_marker)) =>
          scan.filtered_text = SliceFrom(text, Find(text, dialogues_start_marker, 0))
    /\ (Located /\ Nietzsche /\ ~Contains(text, nietzsche_end_marker)) =>
          scan.filtered_text = SliceFrom(text, Find(text, nietzsche_start_marker, 0))
    /\ (Located /\ Epictetus /\ Contains(text, epictetus_start_marker)
          /\ ~Contains(text, epictetus_end_markers[3])) =>
          scan.filtered_text = SliceFrom(text, Find(text, epictetus_start_marker, 0))
    /\ (pc = "call" /\ ~Contains(raw, "*** END OF")) => text = Strip(raw)

\* the Marcus scanner is in its loop on a text without the end marker, whose
\* start marker is not at the beginning, from a document with "*** START OF"
\* and without "*** END OF"
C6_Witness ==
    /\ Located
    /\ Marcus
    /\ ~Contains(text, marcus_end_marker)
    /\ Find(text, marcus_start_marker, 0) > 0
    /\ Contains(raw, "*** START OF")
    /\ ~Contains(raw, "*** END OF")

\* the paragraphs of t, stripped
Paragraphs(t) == [k \in 1..Len(Split(t, "\n\n")) |-> Strip(Split(t, "\n\n")[k])]

\* the position of the last "THE FIRST BOOK" before "I. Of my grandfather"
MarcusHeadingPos ==
    LET start_pos == Find(text, marcus_start_marker, 0)
        actual_start_pos == Find(text, marcus_actual_start_marker, start_pos)
    IN  Max({p \in start_pos..actual_start_pos :
                Slice(text, p, p + Len(marcus_start_marker)) = marcus_start_marker})

\* the text from that heading to the end marker, or to the end
MarcusBodyFromHeading ==
    LET end_pos == Find(text, marcus_end_marker, 0)
    IN  IF end_pos = -1 THEN SliceFrom(text, MarcusHeadingPos)
        ELSE Slice(text, MarcusHeadingPos, end_pos)

\* C7: no paragraph that lies between the first "THE FIRST BOOK" and the book
\* heading before "I. Of my grandfather" is emitted: every chunk is a paragraph
\* of the text from that heading on.
C7_TocNotEmitted ==
    (Returned /\ Marcus /\ scan # NoScan) =>
        \A k \in 1..Len(chunks) :
            InList(chunks[k][2], Paragraphs(MarcusBodyFromHeading))

\* the title contains none of the keywords
NoKeyword ==
    \A kw \in {"Meditations", "Morals", "Dialogues", "Epistles", "Enchiridion",
               "Republic", "Zarathustra"} : ~Contains(work, kw)

\* C8: the scanner is picked by the first keyword the title contains, in the
\* order Meditations, Morals, Dialogues/Epistles, Enchiridion, Republic,
\* Zarathustra, letter case counting; a title with none is chunked by the
\* Seneca-morals scanner, with the chunks that scanner gives for the extracted
\* content.
C8_Router ==
    pc # "chunk_text" =>
        /\ Contains(work, "Meditations") => Marcus
        /\ (~Contains(work, "Meditations") /\ Contains(work, "Morals")) => Morals
        /\ (~Contains(work, "Meditations") /\ ~Contains(work, "Morals")
              /\ (Contains(work, "Dialogues") \/ Contains(work, "Epistles"))) => Dialogues
        /\ (~Contains(work, "Meditations") /\ ~Contains(work, "Morals")
              /\ ~Contains(work, "Dialogues") /\ ~Contains(work, "Epistles")
              /\ Contains(work, "Enchiridion")) => Epictetus
        /\ (~Contains(work, "Meditations") /\ ~Contains(work, "Morals")
              /\ ~Contains(work, "Dialogues") /\ ~Contains(work, "Epistles")
              /\ ~Contains(work, "Enchiridion") /\ Contains(work, "Republic")) =>
              variant = "chunk_plato_republic"
        /\ (~Contains(work, "Meditations") /\ ~Contains(work, "Morals")
              /\ ~Contains(work, "Dialogues") /\ ~Contains(work, "Epistles")
              /\ ~Contains(work, "Enchiridion") /\ ~Contains(work, "Republic")
              /\ Contains(work, "Zarathustra")) => Nietzsche
        /\ NoKeyword => Morals
        /\ work = "Seneca's Morals" => Morals
        /\ work = "Morals and Dialogues" => Morals
        /\ work \in {"Some Unknown Work", "meditations"} => Morals
        /\ (Returned /\ NoKeyword) => chunks = chunk_seneca_morals(extract_content(raw))

\* a title with both "Morals" and "Dialogues", and one with no keyword, have
\* been chunked by the Seneca-morals scanner, with chunks
C8_Witness ==
    /\ Returned
    /\ work \in {"Morals and Dialogues", "Some Unknown Work"}
    /\ raw = MoralsScenario
    /\ Len(result) = 2

\* C9: a title with "Republic" and no earlier keyword gets a chunk sequence,
\* not an error.
C9_RepublicReturns ==
    (/\ Contains(work, "Republic")
     /\ ~Contains(work, "Meditations") /\ ~Contains(work, "Morals")
     /\ ~Contains(work, "Dialogues") /\ ~Contains(work, "Epistles")
     /\ ~Contains(work, "Enchiridion")) => pc # "raised"

\* C10 as stated: in the footnote mode of the Seneca-dialogues scanner a
\* Roman-numeral paragraph marker ends the mode and opens a new section.
C10_Original ==
    [][(/\ pc = "loop" /\ Dialogues /\ ~AtEnd
        /\ scan.in_footnotes
        /\ ~MatchFootnoteMarker(Unit)
        /\ DialoguesIsParagraphMarker(Unit)) =>
          /\ ~scan'.in_footnotes
          /\ scan'.current_paragraph = <<Unit>>]_vars

\* C10, amended: from a footnote marker line on, every line is discarded until
\* the next book heading, a Roman-numeral paragraph marker like any other line:
\* the mode stays on, nothing is accumulated and nothing emitted; the book
\* heading ends the mode, and the paragraph markers after it open sections
\* again.
C10_FootnotesUntilBookHeading ==
    [][(pc = "loop" /\ Dialogues /\ ~AtEnd) =>
          /\ (scan.current_book # None /\ MatchFootnoteMarker(Unit)
                /\ ~DialoguesIsBookHeader(Unit)) => scan'.in_footnotes
          /\ (scan.in_footnotes /\ ~DialoguesIsBookHeader(Unit)) =>
                /\ scan'.in_footnotes
                /\ scan'.current_paragraph = <<>>
                /\ chunks' = chunks
          /\ DialoguesIsBookHeader(Unit) => ~scan'.in_footnotes
          /\ (~scan.in_footnotes /\ scan.current_book # None
                /\ ~DialoguesIsBookHeader(Unit) /\ ~MatchFootnoteMarker(Unit)
                /\ DialoguesIsParagraphMarker(Unit)) =>
                scan'.current_paragraph = <<Unit>>]_vars

\* a document with a footnote region in its first book and a paragraph in its
\* second: the paragraph of the second book is returned
C10_Witness ==
    /\ Returned
    /\ Dialogues
    /\ raw = DialoguesScenario
    /\ Len(result) = 2
    /\ result[2].section = "THE SECOND BOOK OF THE DIALOGUES - Paragraph I"

\* the lines of the body that are paragraph markers under a book heading
\* and carry more than the threshold
DialoguesLongMarkers ==
    {k \in 1..Len(scan.lines) :
        /\ DialoguesIsParagraphMarker(Strip(scan.lines[k]))
        /\ Len(SubBracketNum(Strip(scan.lines[k]))) > dialogues_min_length}

\* the lines of the body that begin a footnote
DialoguesNoteLines ==
    {k \in 1..Len(scan.lines) : MatchFootnoteMarker(Strip(scan.lines[k]))}

\* the body is one book heading, two long paragraph markers after it and one
\* footnote line, with lines that are no markers
DialoguesTwoSectionsAndNotes ==
    /\ Returned
    /\ Dialogues
    /\ scan # NoScan
    /\ Cardinality({k \in 1..Len(scan.lines) :
                       DialoguesIsBookHeader(Strip(scan.lines[k]))}) = 1
    /\ DialoguesIsBookHeader(Strip(scan.lines[1]))
    /\ Cardinality({k \in 1..Len(scan.lines) :
                       DialoguesIsParagraphMarker(Strip(scan.lines[k]))}) = 2
    /\ Cardinality(DialoguesLongMarkers) = 2
    /\ Cardinality(DialoguesNoteLines) = 1

\* C11 as stated: a document with two section markers and one footnote
\* region yields exactly two chunks, wherever the footnote region is.
C11_Original ==
    DialoguesTwoSectionsAndNotes => Len(result) = 2

\* C11, amended: a book with two paragraphs of more than 100 characters and
\* the footnote region after the second yields exactly the two paragraphs as
\* chunks; with the footnote region between the two paragraphs it yields the
\* first one only; and no line that begins a footnote is in any chunk.
C11_RoundTrip ==
    /\ (Returned /\ Dialogues /\ raw \in Wrapped({DialoguesTrailingNotes})) =>
          chunks = << <<"THE FIRST BOOK OF THE DIALOGUES - Paragraph I", D101>>,
                      <<"THE FIRST BOOK OF THE DIALOGUES - Paragraph II", D101II>> >>
    /\ (Returned /\ Dialogues /\ raw \in Wrapped({DialoguesInterleavedNotes})) =>
          chunks = << <<"THE FIRST BOOK OF THE DIALOGUES - Paragraph I", D101>> >>
    /\ (Returned /\ Dialogues /\ scan # NoScan) =>
          \A c \in 1..Len(chunks) : \A k \in DialoguesNoteLines :
              ~Contains(chunks[c][2], Strip(scan.lines[k]))

\* the document with the footnotes after the paragraphs, in its Project
\* Gutenberg wrapping, has been chunked into two chunks
C11_Witness ==
    /\ Returned
    /\ Dialogues
    /\ raw = "Title page\n*** START OF THE EBOOK ***\n" \o DialoguesTrailingNotes
                \o "*** END OF THE EBOOK ***\nLicense\n"
    /\ Len(result) = 2
    /\ DialoguesNoteLines # {}

\* C12 as stated: at the end of input an open section whose accumulated text
\* is longer than the threshold is emitted.
C12_Original ==
    [][(pc = "loop" /\ ~Marcus /\ AtEnd /\ SectionOpen
          /\ Len(Accumulated) > Threshold) =>
          Len(chunks') = Len(chunks) + 1]_vars

\* C12, amended: in the Seneca-morals, Seneca-dialogues, Epictetus and
\* Nietzsche scanners, when the end of input is reached while a labelled
\* section is open whose text, as it would be emitted (in Seneca-dialogues
\* without the bracketed footnote numbers), is longer than the threshold, the
\* section is appended after the chunks found so far and is the last chunk
\* returned; the Marcus scanner has nothing open at the end and returns
\* the chunks it found.
C12_FinalFlush ==
    [][/\ (pc = "loop" /\ ~Marcus /\ AtEnd /\ SectionOpen
             /\ Len(Finalized) > Threshold) =>
             /\ Len(chunks') = Len(chunks) + 1
             /\ SubSeq(chunks', 1, Len(chunks)) = chunks
             /\ chunks'[Len(chunks')][2] = Finalized
             /\ pc' = "returned"
             /\ Len(result') = Len(chunks')
             /\ result'[Len(result')].text = Finalized
       /\ (pc = "loop" /\ Marcus /\ AtEnd) =>
             /\ chunks' = chunks
             /\ pc' = "returned"
             /\ Len(result') = Len(chunks)]_vars

\* a document of one chapter, which only the final flush can emit, has been
\* returned with its chunk
C12_Witness ==
    /\ Returned
    /\ Nietzsche
    /\ raw = "I. THE THREE METAMORPHOSES.\n" \o L101 \o "\n"
    /\ Len(result) = 1
    /\ result[1].text = L101

\* the units of the body: its paragraphs or its lines, stripped
Units ==
    IF Marcus \/ Epictetus
    THEN [k \in 1..Len(scan.paragraphs) |-> Strip(scan.paragraphs[k])]
    ELSE [k \in 1..Len(scan.lines) |-> Strip(scan.lines[k])]

\* the first word of a paragraph of the Marcus scanner
MarcusFirstWord(para) == Split(Strip(Split(para, "\n")[1]), ".")[1]

\* the unit u is a marker that opens a section a chunk is made of
OpensSection(u) ==
    \/ Marcus /\ u # "" /\ ~MarcusIsBookHeader(Strip(Split(u, "\n")[1]))
          /\ InList(MarcusFirstWord(u), marcus_roman_numerals)
    \/ Morals /\ (MoralsIsChapterHeader(u)
                    \/ (StartsWith(u, "SENECA OF ") /\ Contains(u, "CLEMENCY")))
    \/ Dialogues /\ DialoguesIsParagraphMarker(u)
    \/ Epictetus /\ InList(u, epictetus_roman_numerals)
    \/ Nietzsche /\ NietzscheIsChapterHeader(u)

\* the unit u is a structural marker: a book heading, a main section
\* heading, a chapter heading or a numbered-section marker
IsStructuralMarker(u) ==
    \/ OpensSection(u)
    \/ Marcus /\ u # "" /\ MarcusIsBookHeader(Strip(Split(u, "\n")[1]))
    \/ Morals /\ StartsWith(u, "SENECA OF ")
    \/ Dialogues /\ DialoguesIsBookHeader(u)

\* C13 as stated: a body without any structural marker gives no chunk.
C13_Original ==
    (Returned /\ scan # NoScan /\ \A k \in 1..Len(Units) : ~IsStructuralMarker(Units[k]))
        => result = <<>>

\* C13, amended: in the Marcus, Seneca-morals, Seneca-dialogues and Nietzsche
\* scanners a body in which no unit opens a section (a numbered paragraph, a
\* chapter heading, the CLEMENCY heading) gives an empty chunk sequence,
\* whatever content and book headings it holds; the Epictetus scanner starts
\* with "Section I" open, and a body of it without any numeral paragraph gives
\* at most one chunk, labelled "Section I"; no scanner run ends in an error.
C13_NoMarkerNoChunks ==
    /\ (Returned /\ scan # NoScan /\ ~Epictetus
          /\ \A k \in 1..Len(Units) : ~OpensSection(Units[k])) => result = <<>>
    /\ (Returned /\ Epictetus
          /\ \A k \in 1..Len(Units) : ~OpensSection(Units[k])) =>
          /\ Len(result) <= 1
          /\ \A k \in 1..Len(result) : result[k].section = "Section I"
    /\ variant # "chunk_plato_republic" => pc # "raised"

\* a body of Seneca-morals with its main section heading and a line of
\* content, and no chapter heading, has been returned without a chunk
C13_Witness ==
    /\ Returned
    /\ Morals
    /\ raw = "SENECA OF BENEFITS\n" \o L101 \o "\n"
    /\ scan.chapter_content = <<L101>>
    /\ result = <<>>

OrdinaryContent(u) ==
    /\ u # ""
    /\ ~IsStructuralMarker(u)
    /\ IF Epictetus THEN ~EpictetusIsBoilerplate(u) ELSE ~IsBoilerplate(u)
    /\ Dialogues => (~MatchFootnoteMarker(u) /\ ~Contains(u, "["))

\* the index in Units of the last structural marker the loop has passed,
\* 0 when it has passed none
LastMarker ==
    LET U == Units
        S == {j \in 1..scan.i : IsStructuralMarker(U[j])}
    IN  IF S = {} THEN 0 ELSE CHOOSE j \in S : \A k \in S : k <= j

\* the index in Units of the first unit after the marker of the section the
\* loop is in: after the lines of the chapter title in Seneca-morals
SectionStart ==
    LET m == LastMarker
        look == MoralsLookAhead(scan.lines, m, <<>>)
    IN  IF Morals /\ m > 0 /\ MoralsIsChapterHeader(Units[m]) /\ look.title_lines # <<>>
        THEN look.j + 1
        ELSE m + 1

\* a unit is kept in the buffer buf: in Epictetus a paragraph of more than
\* 50 characters that is not boilerplate; elsewhere a line of at least 10
\* characters that is not boilerplate, and a shorter line when the buffer
\* already holds something
Keeps(u, buf) ==
    IF Epictetus THEN Len(u) > 50 /\ ~EpictetusIsBoilerplate(u)
    ELSE IF Len(u) < 10 THEN buf # <<>>
    ELSE ~IsBoilerplate(u)

\* the units k..last of U that are kept, after buf
RECURSIVE KeptUnits(_, _, _, _)
KeptUnits(U, k, last, buf) ==
    IF k > last THEN buf
    ELSE KeptUnits(U, k + 1, last, IF Keeps(U[k], buf) THEN Append(buf, U[k]) ELSE buf)

\* the text of the section the loop is in, from the units the loop has passed
SectionText ==
    LET U == Units
        m == LastMarker
        kept == KeptUnits(U, SectionStart, scan.i, IF Dialogues THEN <<U[m]>> ELSE <<>>)
    IN  IF Epictetus THEN Join(kept, "\n\n")
        ELSE IF Dialogues THEN SubBracketNum(Strip(Join(kept, "\n")))
        ELSE Strip(Join(kept, "\n"))

\* C15 as stated: every ordinary content unit between the opening marker of
\* an emitted section and the next structural marker is in the section's
\* chunk text.
C15_Original ==
    [][pc = "loop" =>
          /\ (~Marcus /\ Len(chunks') = Len(chunks) + 1) =>
                \A k \in SectionStart..scan.i :
                    OrdinaryContent(Units[k]) =>
                        Contains(chunks'[Len(chunks')][2], Units[k])
          /\ (Marcus /\ ~AtEnd /\ scan.current_book # None /\ OrdinaryContent(Unit)
                /\ LastMarker > 0 /\ OpensSection(Units[LastMarker])) =>
                /\ chunks' # <<>>
                /\ Contains(chunks'[Len(chunks')][2], Unit)]_vars

\* C15, amended: the text of an emitted chunk is made, in source order, of
\* the units of its section that the scanner keeps. In Seneca-morals,
\* Seneca-dialogues and Nietzsche a line of at least 10 characters that is
\* not boilerplate is kept, and a shorter line is kept only when the buffer
\* already holds a line (in Seneca-dialogues it always does, the marker line
\* being its first line), so short lines at the start of a section are lost.
\* In Epictetus only paragraphs of more than 50 characters are kept. In
\* Marcus the chunk text is the paragraph of the marker alone: a paragraph
\* that does not start with a listed numeral is in no chunk.
C15_ContentKept ==
    [][pc = "loop" =>
          /\ (~Marcus /\ Len(chunks') = Len(chunks) + 1) =>
                chunks'[Len(chunks')][2] = SectionText
          /\ (Marcus /\ chunks' # chunks) =>
                /\ ~AtEnd
                /\ OpensSection(Unit)
                /\ Len(chunks') = Len(chunks) + 1
                /\ SubSeq(chunks', 1, Len(chunks)) = chunks
                /\ chunks'[Len(chunks')][2] = Unit
          /\ (Marcus /\ ~AtEnd /\ OrdinaryContent(Unit)) => chunks' = chunks]_vars

\* a chapter of Seneca-morals that starts with a short line has been
\* emitted without it, and a section of Marcus followed by an unnumbered
\* paragraph has been emitted without that paragraph
C15_Witness ==
    /\ Returned
    /\ \/ /\ Morals
          /\ raw = "SENECA OF BENEFITS\nCHAPTER I.\nOF BENEFITS\nSo it is.\n" \o L101 \o "\n"
          /\ Len(result) = 1
          /\ result[1].text = L101
       \/ /\ Marcus
          /\ raw = "THE FIRST BOOK\n\nI. Of my grandfather, Something.\n\nPREFACE...\n"
          /\ Len(result) = 1
          /\ result[1].text = "I. Of my grandfather, Something."

\* the line holds one of the three boilerplate words, in any letter case
HasBoilerplateWord(l) ==
    \/ Contains(Lower(l), "project gutenberg")
    \/ Contains(Lower(l), "table of contents")
    \/ Contains(Lower(l), "http://")

\* the paragraph holds one of the four boilerplate words of Epictetus
HasEpictetusBoilerplateWord(p) ==
    \/ Contains(Lower(p), "project gutenberg")
    \/ Contains(Lower(p), "contents")
    \/ Contains(Lower(p), "http://")
    \/ Contains(Lower(p), "footnote")

Normalised(x) == Lower(Strip(x))

\* C17: generate_quote_hash gives the same value for two inputs whose quote
\* texts and whose authors differ only in letter case and in the whitespace
\* around them, as for ("A Quote.", "Plato") and (" a quote. ", "  PLATO  "),
\* and the same value when it is called again on the same input.
C17_HashOfNormalisedPair ==
    /\ \A i \in 1..Len(hash_out), j \in 1..Len(hash_out) :
          (/\ Normalised(hash_in[i][1]) = Normalised(hash_in[j][1])
           /\ Normalised(hash_in[i][2]) = Normalised(hash_in[j][2])) =>
              hash_out[i] = hash_out[j]
    /\ (/\ Len(hash_out) >= 2
        /\ hash_in[1] = <<"A Quote.", "Plato">>
        /\ hash_in[2] = <<" a quote. ", "  PLATO  ">>) =>
          hash_out[1] = hash_out[2]
    /\ Len(hash_out) = 3 => hash_out[3] = hash_out[1]

\* the calls on ("A Quote.", "Plato") and on (" a quote. ", "  PLATO  ")
\* have been made, and the first made again, with one value for the three
C17_Witness ==
    /\ Len(hash_out) = 3
    /\ hash_in[1] = <<"A Quote.", "Plato">>
    /\ hash_in[2] = <<" a quote. ", "  PLATO  ">>
    /\ hash_out[1] = hash_out[2]
    /\ hash_out[3] = hash_out[1]
    /\ hash_out[1] = md5("a quote.||plato")

\* the step is an iteration of the loop of scrape_quotes_from_page
ElementStep == qpc = "elements" /\ page'.n = page.n + 1

\* the element of the iteration has a quote link whose text holds the share text
HoldsShareText(e) ==
    e.quote_link # <<>> /\ Contains(e.quote_link[1], share_text)

\* the text of the quote link of e without the share text, trimmed
Cleaned(e) == Strip(Remove(Strip(e.quote_link[1]), share_text))

\* C18 as stated: in both paths a candidate whose quote text holds
\* "Share this Quote" gives no record.
C18_Original ==
    [][(ElementStep /\ HoldsShareText(page'.element)) =>
          page'.quotes = page.quotes]_vars

\* C18, amended: only the path without containers rejects a candidate whose
\* quote text holds "Share this Quote". The container path removes the
\* share text from the quote text and goes on with what is left: the
\* candidate gives a record with the cleaned text when that has at least 15
\* characters, the author has more than 2 and the key is new, and gives none
\* when the cleaned text is shorter than 15 characters.
C18_ShareTextCleanedInContainers ==
    [][(ElementStep /\ HoldsShareText(page'.element)) =>
          LET e == page'.element
          IN  /\ ~page.containers => page'.quotes = page.quotes
              /\ (/\ page.containers
                  /\ Len(Cleaned(e)) >= 15
                  /\ e.author_link # <<>>
                  /\ Len(Strip(e.author_link[1])) > 2
                  /\ quote_key(Cleaned(e), Strip(e.author_link[1])) \notin page.seen_on_page) =>
                    page'.quotes = Append(page.quotes,
                                          [quote_text |-> Cleaned(e),
                                           author |-> Strip(e.author_link[1]),
                                           source_url |-> page.url])
              /\ (page.containers /\ Len(Cleaned(e)) < 15) =>
                    page'.quotes = page.quotes
              /\ (/\ page.containers
                  /\ page.seen_on_page = {}
                  /\ e = [quote_link |-> <<Q20 \o "\n" \o share_text>>,
                          author_link |-> <<"Plato">>]) =>
                    page'.quotes = <<[quote_text |-> Q20, author |-> "Plato",
                                      source_url |-> page.url]>>]_vars

\* a container whose quote link reads Q20 and "Share this Quote" has given
\* the record of Q20
C18_Witness ==
    /\ qpc = "elements"
    /\ page.containers
    /\ page.element = [quote_link |-> <<Q20 \o "\n" \o share_text>>,
                       author_link |-> <<"Plato">>]
    /\ page.quotes = <<[quote_text |-> Q20, author |-> "Plato", source_url |-> BASE_URL]>>

\* the quote text extracted from the element e: the text of its quote
\* link, trimmed, and in the container path without the share text
Extracted(e) ==
    IF e.quote_link = <<>> THEN ""
    ELSE IF page.containers THEN Cleaned(e) ELSE Strip(e.quote_link[1])

\* the author extracted from the element e, "" when it has no author link
ExtractedAuthor(e) ==
    IF e.author_link = <<>> THEN "" ELSE Strip(e.author_link[1])

\* C19: a candidate whose quote text is empty or shorter than 15 characters
\* gives no record, whatever its author; a candidate whose author is
\* shorter than 3 characters gives no record; a candidate with a quote text
\* of at least 15 characters and an author of at least 3, whose key is new
\* on the page, is appended to the result of the page (a quote text with
\* the share text in it, in the path without containers, is the matter of
\* another rule).
C19_ValidationByLength ==
    [][ElementStep =>
          LET e == page'.element
              t == Extracted(e)
              a == ExtractedAuthor(e)
              k == Slice(t, 0, 50) \o "||" \o a
          IN  /\ Len(t) < 15 => page'.quotes = page.quotes
              /\ Len(a) < 3 => page'.quotes = page.quotes
              /\ (/\ Len(t) >= 15
                  /\ Len(a) >= 3
                  /\ page.containers \/ ~HoldsShareText(e)
                  /\ k \notin page.seen_on_page) =>
                    /\ page'.quotes = Append(page.quotes,
                                             [quote_text |-> t, author |-> a,
                                              source_url |-> page.url])
                    /\ page'.seen_on_page = page.seen_on_page \cup {k}
              /\ (e.quote_link = <<"Hi">>) => page'.quotes = page.quotes]_vars

\* on a page without containers the quote of 15 characters by "Lao", the
\* second element looked at, has been accepted as the first record
C19_Witness ==
    /\ qpc = "elements"
    /\ ~page.containers
    /\ page.n = 2
    /\ page.element = [quote_link |-> <<Q15>>, author_link |-> <<"Lao">>]
    /\ page.quotes = <<[quote_text |-> Q15, author |-> "Lao", source_url |-> BASE_URL]>>
    /\ page.seen_on_page = {Q15 \o "||Lao"}

\* the table holds at most one row for a quote_hash
OneRowPerHash(rows) ==
    \A i \in 1..Len(rows), j \in 1..Len(rows) :
        rows[i].quote_hash = rows[j].quote_hash => i = j

\* the hash of the quote upload_quotes_to_supabase is at
HashAtHand ==
    md5(Normalised(all_quotes[upload.i + 1].quote_text) \o "||"
            \o Normalised(all_quotes[upload.i + 1].author))

\* C20: the table starting with at most one row for a quote_hash and the
\* upload being the only writer, the table holds at most one row for a
\* quote_hash after every step, also when the list holds a quote several
\* times (from two pages, or in two letter cases); a quote whose hash is in
\* the table is not inserted, and is counted as skipped when the existence
\* check returns (when the check raises, the quote is counted nowhere).
C20_OneRowPerHash ==
    [][/\ OneRowPerHash(store')
       /\ (/\ qpc = "upload"
           /\ upload'.i = upload.i + 1
           /\ \E k \in 1..Len(store) : store[k].quote_hash = HashAtHand) =>
             /\ store' = store
             /\ upload'.inserted_count = upload.inserted_count
             /\ \/ upload'.skipped_count = upload.skipped_count + 1
                \/ /\ upload'.errors = upload.errors + 1
                   /\ upload'.skipped_count = upload.skipped_count]_vars

\* the quote of page 1 has been inserted and the same quote in capitals, of
\* page 2, skipped
C20_Witness ==
    /\ qpc = "done"
    /\ Len(all_quotes) = 2
    /\ all_quotes[1] = [quote_text |-> Q20, author |-> "Plato", source_url |-> BASE_URL]
    /\ all_quotes[2] = [quote_text |-> "KNOW THYSELF, ALWAYS", author |-> "Plato",
                        source_url |-> BASE_URL \o "_2"]
    /\ store = <<Row(Q20, "Plato", BASE_URL)>>
    /\ upload.inserted_count = 1
    /\ upload.skipped_count = 1

\* the step is the insert of instance p
InsertStep(p) ==
    /\ writers[p].pc = "insert"
    /\ writers'[p].i = writers[p].i + 1

\* C21: the check and the insert are two steps. The insert of an instance
\* that found no row adds its row whatever the table holds by then, so when
\* both instances make their checks for one hash before either inserts,
\* both insert and the table holds two rows with that quote_hash.
C21_InsertNotAtomicWithCheck ==
    [][\A p \in 1..Len(writers) :
          (InsertStep(p) /\ writers'[p].errors = writers[p].errors) =>
              /\ Len(store') = Len(store) + 1
              /\ SubSeq(store', 1, Len(store)) = store
              /\ store'[Len(store')].quote_hash =
                     md5(Normalised(QuoteOf(writers[p]).quote_text) \o "||"
                             \o Normalised(QuoteOf(writers[p]).author))
              /\ writers'[p].inserted_count = writers[p].inserted_count + 1]_vars

\* the two instances have inserted the same quote into the empty table,
\* which holds two rows with one quote_hash
C21_Witness ==
    /\ Len(writers) = 2
    /\ writers[1].pc = "done" /\ writers[2].pc = "done"
    /\ writers[1].inserted_count = 1 /\ writers[2].inserted_count = 1
    /\ Len(store) = 2
    /\ store[1].quote_hash = store[2].quote_hash
    /\ store[1].quote_hash = md5("know thyself, always||plato")

\* the requests for the HTML rendering among the requests made, in order
HtmlRequests ==
    SelectSeq(batch.requests,
              LAMBDA u : \E k \in 1..Len(batch.texts) :
                            u = HtmlUrl(batch.texts[k].gutenberg_id))

\* the first n documents of the list were begun, each once, in list order
BegunInOrder(n) ==
    HtmlRequests = [k \in 1..n |-> HtmlUrl(batch.texts[k].gutenberg_id)]

\* the rows of the table that came from the k-th document
RowsOf(k) ==
    SelectSeq(batch.table, LAMBDA r : r.work = batch.texts[k].title)

\* C22: main takes the documents of PHILOSOPHICAL_TEXTS one at a time in
\* list order, each once; it ends only at the head of its loop with the list
\* used up, whatever a fetch, chunk_text, the embedding or an insert came to;
\* a step that gives a document up (all fetches failed, chunk_text raised or
\* returned nothing, the embedding raised) adds no row and goes back to the
\* head of the loop; and main always reaches its end.
C22_BatchForwardProgress ==
    /\ [](batch.pc # "idle" =>
             /\ batch.n \in 0..Len(batch.texts)
             /\ BegunInOrder(IF batch.pc = "fetch" THEN batch.n - 1 ELSE batch.n)
             /\ batch.pc = "done" => batch.n = Len(batch.texts))
    /\ [][/\ batch'.pc = "done" => batch.pc = "main" /\ batch.n = Len(batch.texts)
          /\ batch'.n # batch.n => batch.pc = "main" /\ batch'.n = batch.n + 1
          /\ (batch.pc \in {"alt", "chunk_text", "upload"} /\ batch'.pc = "main") =>
                 batch'.table = batch.table]_vars
    /\ (batch.pc = "main") ~> (batch.pc = "done")

\* main ended on a list of two documents: the three requests for the first
\* all failed, and the 41 chunks of the second are in the table
C22_Witness ==
    /\ batch.pc = "done"
    /\ Len(batch.texts) = 2
    /\ batch.requests =
           <<HtmlUrl(batch.texts[1].gutenberg_id), TextUrl(batch.texts[1].gutenberg_id),
             AltUrl(batch.texts[1].gutenberg_id), HtmlUrl(batch.texts[2].gutenberg_id)>>
    /\ RowsOf(1) = <<>>
    /\ Len(RowsOf(2)) = 41

\* the three addresses of the k-th document, in the order of fetch_gutenberg_text
Shapes(k) ==
    <<HtmlUrl(batch.texts[k].gutenberg_id), TextUrl(batch.texts[k].gutenberg_id),
      AltUrl(batch.texts[k].gutenberg_id)>>

\* the requests made for the k-th document, in order
RequestsOf(k) ==
    SelectSeq(batch.requests, LAMBDA u : \E j \in 1..3 : u = Shapes(k)[j])

\* C23: for a document the addresses are asked in the order HTML rendering,
\* <id>-0.txt, pg<id>.txt, each at most once and a later one only after the
\* earlier ones failed; the text handed to chunk_text is that of the last
\* address asked, the first that answered (the text extracted from the page
\* for the HTML rendering, response.text for the other two); and when the
\* third fails too main goes to the head of its loop with no text, no chunk
\* and no row for the document.
C23_FetchFallbackOrder ==
    /\ [](batch.pc # "idle" =>
             /\ \A k \in 1..Len(batch.texts) :
                   /\ \E m \in 0..3 : RequestsOf(k) = SubSeq(Shapes(k), 1, m)
                   /\ k > batch.n => RequestsOf(k) = <<>>
             /\ batch.pc = "fetch" => RequestsOf(batch.n) = <<>>
             /\ batch.pc = "text" => RequestsOf(batch.n) = SubSeq(Shapes(batch.n), 1, 1)
             /\ batch.pc = "alt" => RequestsOf(batch.n) = SubSeq(Shapes(batch.n), 1, 2)
             /\ batch.pc = "chunk_text" =>
                   /\ RequestsOf(batch.n) # <<>>
                   /\ batch.raw_text =
                          IF Len(RequestsOf(batch.n)) = 1
                          THEN ParsedHtml(Shapes(batch.n)[1])
                          ELSE ResponseText(Shapes(batch.n)[Len(RequestsOf(batch.n))]))
    /\ [][(batch.pc = "alt" /\ batch'.pc # "chunk_text") =>
              /\ batch'.pc = "main"
              /\ batch'.n = batch.n
              /\ batch'.raw_text = "" /\ batch'.chunks = <<>>
              /\ batch'.table = batch.table]_vars

\* the three requests for the first document failed, main went on, and the
\* second document came from <id>-0.txt after its HTML rendering failed
C23_Witness ==
    /\ batch.pc = "chunk_text"
    /\ batch.n = 2
    /\ batch.requests = Shapes(1) \o SubSeq(Shapes(2), 1, 2)
    /\ batch.raw_text = ResponseText(TextUrl(batch.texts[2].gutenberg_id))

RECURSIVE Flat(_)
\* the batches one after the other
Flat(bs) == IF bs = <<>> THEN <<>> ELSE Head(bs) \o Flat(Tail(bs))

\* upload_to_supabase is at the head of its loop
Uploading == batch.pc = "upload"

\* C24: upload_to_supabase takes the chunks in order in consecutive batches
\* of 20, the last one of what is left, so that at its return every chunk was
\* in exactly one batch; a batch whose insert fails adds no row and the next
\* batch is taken; and total_uploaded is the number of chunks of the batches
\* whose insert succeeded, the rows the document has in the table.
C24_UploadPerBatch ==
    /\ [](Uploading =>
             /\ Flat(batch.batches) =
                    SubSeq(batch.chunks, 1, Min({batch.i, Len(batch.chunks)}))
             /\ \A k \in 1..Len(batch.batches) :
                   /\ Len(batch.batches[k]) \in 1..batch_size
                   /\ k < Len(batch.batches) => Len(batch.batches[k]) = batch_size
             /\ batch.i >= Len(batch.chunks) => Flat(batch.batches) = batch.chunks
             /\ batch.total_uploaded = Len(RowsOf(batch.n))
             /\ \A k \in 1..Len(RowsOf(batch.n)) :
                   \E j \in 1..Len(batch.chunks) :
                       RowsOf(batch.n)[k].chunk_index = batch.chunks[j])
    /\ [][(Uploading /\ batch'.pc = "upload" /\ batch'.i # batch.i) =>
              /\ batch'.i = batch.i + batch_size
              /\ batch'.batches = Append(batch.batches, BatchAt(batch))
              /\ \/ /\ batch'.table = batch.table
                    /\ batch'.total_uploaded = batch.total_uploaded
                 \/ /\ batch'.table = batch.table \o Records(batch)
                    /\ batch'.total_uploaded =
                           batch.total_uploaded + Len(BatchAt(batch))]_vars

\* 41 chunks went in three batches; the insert of the second failed, and the
\* 20 chunks of the first and the one of the third are in the table
C24_Witness ==
    /\ Uploading
    /\ Len(batch.chunks) = 41
    /\ batch.i >= Len(batch.chunks)
    /\ Len(batch.batches) = 3
    /\ batch.total_uploaded = 21
    /\ Len(batch.table) = 21
    /\ batch.table[21].chunk_index = 41

\* the endpoint a script would read from the environment as it is
Endpoint == getenv(startup.environ, "SUPABASE_URL")

\* the credential a script would read from the environment as it is: the
\* anon key, and for the scraper the service role key before it
CredentialValue ==
    IF startup.script = "scrapePhilosophicalQuotesSelenium.py"
           /\ getenv(startup.environ, "SUPABASE_SERVICE_ROLE_KEY") # None
    THEN getenv(startup.environ, "SUPABASE_SERVICE_ROLE_KEY")
    ELSE getenv(startup.environ, "SUPABASE_ANON_KEY")

\* C25: in both scripts, when the endpoint or the credential is missing from
\* the environment after load_dotenv, the reading of the configuration ends
\* the process with status 1; a process that ended so has created no client
\* and begun no work, and a client is created and work begun only with both
\* values at hand.
C25_MissingConfigurationFatal ==
    /\ [](startup.pc # "idle" =>
             /\ startup.pc = "exited" =>
                   /\ startup.status = 1
                   /\ startup.client = <<>>
                   /\ ~startup.working
                   /\ Endpoint = None \/ CredentialValue = None
             /\ (startup.client # <<>> \/ startup.working) =>
                   /\ startup.status = 0
                   /\ Endpoint # None /\ CredentialValue # None
                   /\ startup.client = <<Endpoint, CredentialValue>>)
    /\ [][(startup.pc = "getenv" /\ (Endpoint = None \/ CredentialValue = None)) =>
              /\ startup'.pc = "exited"
              /\ startup'.status = 1
              /\ startup'.client = <<>>
              /\ ~startup'.working]_vars

\* the scraper was started with the endpoint and with neither of the two
\* keys, and ended with status 1 and no client
C25_Witness ==
    /\ startup.pc = "exited"
    /\ startup.script = "scrapePhilosophicalQuotesSelenium.py"
    /\ startup.environ["SUPABASE_URL"] = <<"v">>
    /\ startup.environ["SUPABASE_SERVICE_ROLE_KEY"] = <<>>
    /\ startup.environ["SUPABASE_ANON_KEY"] = <<>>
    /\ startup.status = 1
    /\ startup.client = <<>>

\* the quotes of all_quotes that came from page n
QuotesOfPage(n) ==
    SelectSeq(all_quotes, LAMBDA q : q.source_url = PageUrl(n))

\* the steps of a page: its opening, its elements, its return
PageSteps == MaxElems + 2

\* the steps of the upload: its start, its quotes, its return
UploadSteps == MaxQuotes + 2

\* a number no smaller than the number of steps main has yet to take
StepsLeft ==
    CASE qpc = "main" -> Max(PageCounts) * PageSteps + UploadSteps + 1
      [] qpc = "page" -> (total_pages + 1 - page_num) * PageSteps + UploadSteps
      [] qpc = "elements" ->
             (total_pages - page_num) * PageSteps + (MaxElems - page.n) + 1
                 + UploadSteps
      [] qpc = "upload" -> Len(all_quotes) - upload.i + 1
      [] OTHER -> 0

\* C26: once main has the number of pages, it takes page 1 at the base URL
\* and then the pages 2..total_pages at their URLs, one at a time and each
\* once; a page whose scrape fails adds no quote and the next page is taken;
\* a page that returns adds its quotes at the end of all_quotes; the upload
\* begins once, after the last page, with all_quotes as it is then; and main
\* has a step to take in every state before its end and every step brings
\* the end nearer, so that a main that runs on gets from its first page to
\* the upload and to its end, all pages taken and all quotes handed on.
C26_ScrapeForwardProgress ==
    /\ [][/\ page_num' # page_num =>
                /\ page_num' = page_num + 1
                /\ qpc = "main" \/ page_num \in 1..total_pages
          /\ (qpc = "page" /\ qpc' = "elements") => page'.url = PageUrl(page_num)
          /\ (qpc = "page" /\ page_num' # page_num) =>
                /\ qpc' = "page"
                /\ all_quotes' = all_quotes
                /\ failed_pages' = Append(failed_pages, page_num)
          /\ (qpc = "elements" /\ page_num' # page_num) =>
                /\ qpc' = "page"
                /\ all_quotes' = all_quotes \o page.quotes
                /\ \A k \in 1..Len(page.quotes) :
                      page.quotes[k].source_url = PageUrl(page_num)
          /\ (qpc # "upload" /\ qpc' = "upload") =>
                /\ qpc = "page" /\ page_num = total_pages + 1
                /\ upload'.i = 0
          /\ qpc \in {"upload", "done"} =>
                /\ all_quotes' = all_quotes
                /\ qpc' \in {"upload", "done"}]_vars
    /\ [](qpc \notin {"idle", "done"} => ENABLED QuotesNext)
    /\ [][StepsLeft' < StepsLeft]_vars
    /\ [](qpc = "done" /\ total_pages > 0 =>
             /\ page_num = total_pages + 1
             /\ upload.i = Len(all_quotes))

\* of two pages the first failed and the second gave a quote, which the
\* upload has inserted
C26_Witness ==
    /\ qpc = "done"
    /\ total_pages = 2
    /\ failed_pages = <<1>>
    /\ QuotesOfPage(1) = <<>>
    /\ Len(QuotesOfPage(2)) = 1
    /\ upload.inserted_count = 1

\* the line is a footnote marker line under a book, and no book heading
AtFootnoteMarker ==
    /\ scan.current_book # None
    /\ MatchFootnoteMarker(Unit)
    /\ ~DialoguesIsBookHeader(Unit)

\* the paragraph open in the scan, as it would be emitted
OpenParagraph ==
    <<scan.current_book_title \o " - Paragraph " \o scan.current_paragraph_num,
      SubBracketNum(Strip(Join(scan.current_paragraph, "\n")))>>

\* C27: in the Seneca-dialogues scanner a footnote marker line under a book
\* closes the open paragraph: the paragraph is emitted there if it is over
\* the threshold, as it stood before the line, and nothing is open
\* afterwards; from there to the next book heading no line is accumulated
\* and nothing is emitted, neither at the book heading that ends the region
\* nor at the end of the text, so that the paragraph is emitted once and no
\* line of the region is in the text of a chunk.
C27_FootnotesExcluded ==
    /\ [][(pc = "loop" /\ Dialogues /\ ~AtEnd) =>
             /\ AtFootnoteMarker =>
                   /\ scan'.in_footnotes
                   /\ scan'.current_paragraph = <<>>
                   /\ IF /\ scan.current_paragraph # <<>>
                         /\ Len(OpenParagraph[2]) > dialogues_min_length
                      THEN chunks' = Append(chunks, OpenParagraph)
                      ELSE chunks' = chunks
             /\ scan.in_footnotes =>
                   /\ chunks' = chunks
                   /\ scan'.current_paragraph = <<>>
                   /\ ~DialoguesIsBookHeader(Unit) => scan'.in_footnotes]_vars
    /\ [][(pc = "loop" /\ Dialogues /\ AtEnd /\ scan.in_footnotes) =>
             chunks' = chunks]_vars
    /\ []((pc = "loop" /\ Dialogues /\ scan.in_footnotes) =>
             scan.current_paragraph = <<>>)
    /\ []((Returned /\ Dialogues) =>
             \A k \in 1..Len(result) :
                 /\ ~Contains(result[k].text, "note")
                 /\ ~Contains(result[k].text, "[1]"))

\* the book whose footnotes stand between its two paragraphs: the first
\* paragraph is returned, once, and the notes and what follows them are not
C27_Witness ==
    /\ Returned
    /\ Dialogues
    /\ raw = DialoguesInterleavedNotes
    /\ Len(result) = 1
    /\ result[1].text = D101

\* the scan is at a CHAPTER heading
AtChapterHeading ==
    /\ pc = "loop" /\ Morals /\ ~AtEnd
    /\ ~StartsWith(Unit, "SENECA OF ")
    /\ MoralsIsChapterHeader(Unit)

\* the lines after the heading at which the look-ahead stops, as stated: the
\* non-blank lines not all in upper case, and the markers
StatedStops ==
    {k \in (scan.i + 2)..Len(scan.lines) :
        LET l == Strip(scan.lines[k])
        IN  /\ l # ""
            /\ \/ ~IsUpper(l)
               \/ StartsWith(l, "CHAPTER ")
               \/ StartsWith(l, "SENECA OF ")}

\* the lines after the heading at which the look-ahead stops: those, and the
\* lines TO THE READER. and CONTENTS
TitleStops ==
    StatedStops \cup
        {k \in (scan.i + 2)..Len(scan.lines) :
            Strip(scan.lines[k]) \in {"TO THE READER.", "CONTENTS"}}

\* the non-blank lines between the heading and line k, stripped, in order
TitleLinesBefore(k) ==
    LET between == SubSeq(scan.lines, scan.i + 2, k - 1)
        stripped == [n \in 1..Len(between) |-> Strip(between[n])]
    IN  SelectSeq(stripped, LAMBDA l : l # "")

\* the first line of stops, or the line after the last when there is none
FirstOf(stops) == IF stops = {} THEN Len(scan.lines) + 1 ELSE Min(stops)

\* what the step at a CHAPTER heading comes to when the look-ahead ends at
\* line k: with title lines, the title, no content, and line k as the next
\* line of the scan; without, no chapter and the line after the heading next
LookAheadEndsAt(k) ==
    IF TitleLinesBefore(k) # <<>>
    THEN /\ scan'.current_chapter_title = Join(TitleLinesBefore(k), " ")
         /\ scan'.current_chapter = Strip(Remove(Unit, "."))
         /\ scan'.chapter_content = <<>>
         /\ scan'.i = k - 1
    ELSE /\ scan'.current_chapter = None
         /\ scan'.chapter_content = <<>>
         /\ scan'.i = scan.i + 1

\* C28 as stated: the look-ahead after a CHAPTER heading takes the lines in
\* upper case up to the first non-blank line that is not in upper case or is
\* a CHAPTER or SENECA OF marker.
C28_Original == [][AtChapterHeading => LookAheadEndsAt(FirstOf(StatedStops))]_vars

\* C28, amended: the look-ahead after a CHAPTER heading takes the non-blank
\* lines up to the first that is not in upper case, is a CHAPTER or SENECA OF
\* marker, or is the line TO THE READER. or CONTENTS; joined by single spaces
\* they are the chapter title, they are not in the content, and the line the
\* look-ahead stopped at is the next line of the scan; a chunk of a chapter
\* carries the title at the end of its label.
C28_TitleLookAhead ==
    /\ [][AtChapterHeading => LookAheadEndsAt(FirstOf(TitleStops))]_vars
    /\ [][(pc = "loop" /\ Morals /\ chunks' # chunks /\ scan.current_chapter # None) =>
             chunks'[Len(chunks')][1] =
                 scan.current_main_section \o " - " \o scan.current_chapter
                     \o " - " \o scan.current_chapter_title]_vars

\* the chapter whose title is followed by the line TO THE READER.: the title
\* is the line before it, and the line is the first of the text
C28_Witness ==
    /\ Returned
    /\ Morals
    /\ raw = MoralsToTheReader
    /\ Len(result) = 1
    /\ result[1].section = "SENECA OF BENEFITS - CHAPTER I - OF BENEFITS"
    /\ result[1].text = "TO THE READER.\n" \o L101

\* the key of a record: the first 50 characters of its quote text, and its author
KeyOf(q) == <<Slice(q.quote_text, 0, 50), q.author>>

\* no two records of the list have one key
DistinctKeys(quotes) ==
    \A i \in 1..Len(quotes), j \in 1..Len(quotes) :
        KeyOf(quotes[i]) = KeyOf(quotes[j]) => i = j

\* C29: the records of one call of scrape_quotes_from_page have distinct
\* keys (the first 50 characters of the quote text, the author); a candidate
\* whose key a record of the page has already is dropped and the records
\* before it stay as they are, in order; every page begins with no key seen
\* and no record, and its records are added to all_quotes whatever all_quotes
\* holds of other pages.
C29_PerPageDedup ==
    /\ [](qpc = "elements" =>
             /\ DistinctKeys(page.quotes)
             /\ page.seen_on_page =
                    {KeyOf(page.quotes[k])[1] \o "||" \o KeyOf(page.quotes[k])[2] :
                         k \in 1..Len(page.quotes)})
    /\ [](\A n \in 1..Max(PageCounts) : DistinctKeys(QuotesOfPage(n)))
    /\ [][ElementStep =>
             /\ SubSeq(page'.quotes, 1, Len(page.quotes)) = page.quotes
             /\ Len(page'.quotes) <= Len(page.quotes) + 1
             /\ (\E k \in 1..Len(page.quotes) :
                    KeyOf(page.quotes[k]) =
                        <<Slice(Extracted(page'.element), 0, 50),
                          ExtractedAuthor(page'.element)>>) =>
                    page'.quotes = page.quotes]_vars
    /\ [][(qpc = "page" /\ qpc' = "elements") =>
             page'.seen_on_page = {} /\ page'.quotes = <<>>]_vars
    /\ [][(qpc = "elements" /\ qpc' = "page") =>
             all_quotes' = all_quotes \o page.quotes]_vars

\* page 1 gave a quote of 60 characters; on page 2 the same quote was taken
\* again, and the quote after it, with the same first 50 characters and the
\* same author, was dropped
C29_Witness ==
    /\ qpc = "elements"
    /\ page_num = 2
    /\ all_quotes = <<[quote_text |-> Q60a, author |-> "Plato", source_url |-> PageUrl(1)]>>
    /\ page.n = 2
    /\ page.element = [quote_link |-> <<Q60b>>, author_link |-> <<"Plato">>]
    /\ page.quotes = <<[quote_text |-> Q60a, author |-> "Plato", source_url |-> PageUrl(2)]>>

\* the step emits a chunk
Emits == Len(chunks') = Len(chunks) + 1

\* the label of the chunk the step emits
EmittedLabel == chunks'[Len(chunks')][1]

\* C30: a chunk of the Seneca-dialogues scanner is labelled with the book
\* heading and the paragraph numeral the scan held before the step that emits
\* it, the numeral being that of the marker line its text begins with; a
\* chunk of the Seneca-morals scanner is labelled with the main section, the
\* chapter and the title the scan held before the step; a step that changes
\* the book heading or the main section leaves no paragraph, numeral, chapter,
\* title or content behind, and a step that opens a chapter leaves no content
\* behind, so that a label never names the heading that caused the flush and
\* nothing of an earlier book or section labels text of a later one.
C30_LabelConsistency ==
    /\ [][(pc = "loop" /\ Dialogues /\ Emits) =>
             /\ scan.current_paragraph # <<>>
             /\ EmittedLabel = scan.current_book_title \o " - Paragraph "
                                   \o scan.current_paragraph_num]_vars
    /\ []((pc = "loop" /\ Dialogues /\ scan.current_paragraph # <<>>) =>
             /\ scan.current_book_title # None
             /\ scan.current_paragraph_num # None
             /\ DialoguesLineStart(scan.current_paragraph[1]) = scan.current_paragraph_num)
    /\ [][(pc = "loop" /\ Dialogues /\ ~AtEnd
              /\ scan'.current_book_title # scan.current_book_title) =>
             /\ scan'.current_paragraph = <<>>
             /\ scan'.current_paragraph_num = None]_vars
    /\ [][(pc = "loop" /\ Morals /\ Emits) =>
             /\ scan.chapter_content # <<>>
             /\ EmittedLabel =
                    IF scan.current_chapter # None
                    THEN scan.current_main_section \o " - " \o scan.current_chapter
                             \o " - " \o scan.current_chapter_title
                    ELSE scan.current_main_section]_vars
    /\ [][(pc = "loop" /\ Morals /\ ~AtEnd) =>
             /\ scan'.current_main_section # scan.current_main_section =>
                   /\ scan'.current_chapter = None
                   /\ scan'.current_chapter_title = None
                   /\ scan'.chapter_content = <<>>
             /\ (MoralsIsChapterHeader(Unit) /\ ~StartsWith(Unit, "SENECA OF ")) =>
                   /\ scan'.chapter_content = <<>>
                   /\ scan'.current_main_section = scan.current_main_section]_vars

\* the scan of the Seneca-morals scanner has just met the heading of a second
\* main section: the chapter before it was emitted under the first, and the
\* scan holds the second with no chapter
C30_Witness ==
    /\ pc = "loop"
    /\ Morals
    /\ scan.current_main_section = "SENECA OF CLEMENCY"
    /\ scan.current_chapter = None
    /\ scan.chapter_content = <<>>
    /\ chunks = <<<<"SENECA OF BENEFITS - CHAPTER I - OF BENEFITS", L101>>>>

\* s ends with suffix
EndsWith(s, suffix) ==
    Len(s) >= Len(suffix) /\ SliceFrom(s, Len(s) - Len(suffix)) = suffix

\* the number of units the loop has passed
Passed == Min({scan.i, Len(Units)})

\* the unit u is the section marker the chunk c is named by: the numbered
\* paragraph itself in Marcus, the CHAPTER heading or the main section
\* heading of its label in Seneca-morals, the marker line of its numeral in
\* Seneca-dialogues, the numeral paragraph in Epictetus, the chapter heading
\* in Nietzsche
NamedBy(u, c) ==
    \/ Marcus /\ OpensSection(u) /\ c[2] = u
    \/ Morals /\ MoralsIsChapterHeader(u)
          /\ Contains(c[1], " - " \o Strip(Remove(u, ".")) \o " - ")
    \/ Morals /\ StartsWith(u, "SENECA OF ") /\ c[1] = u
    \/ Dialogues /\ DialoguesIsParagraphMarker(u)
          /\ EndsWith(c[1], " - Paragraph " \o DialoguesLineStart(u))
    \/ Epictetus /\ InList(u, epictetus_roman_numerals) /\ c[1] = "Section " \o u
    \/ Nietzsche /\ NietzscheIsChapterHeader(u)
          /\ c[1] = "Chapter " \o Strip(Split1(u, ".")[1]) \o " - "
                        \o RStripDot(Strip(Split1(u, ".")[2]))

\* the positions after from of the markers that name the chunk c; position 0
\* is the section the Epictetus scanner begins with
PositionsOf(c, from) ==
    {p \in (from + 1)..Passed : p > 0 /\ NamedBy(Units[p], c)}
        \cup (IF Epictetus /\ from < 0 /\ c[1] = "Section I" THEN {0} ELSE {})

\* the chunks k.. of cs are named by markers at increasing positions after from
RECURSIVE InSourceOrder(_, _, _)
InSourceOrder(cs, k, from) ==
    IF k > Len(cs) THEN TRUE
    ELSE LET P == PositionsOf(cs[k], from)
         IN  P # {} /\ InSourceOrder(cs, k + 1, Min(P))

\* the section markers the loop has passed
MarkersPassed == {p \in 1..Passed : OpensSection(Units[p])}

\* a scanner is in its loop or has returned from it
Scanning == pc \in {"loop", "returned"} /\ scan # NoScan

\* C31 as stated: the chunks are named by section markers at strictly
\* increasing positions of the body.
C31_Original == Scanning => InSourceOrder(chunks, 1, -1)

\* the chunk c of the Seneca-morals scanner is labelled with a main section alone
MainSectionChunk(c) == Morals /\ StartsWith(c[1], "SENECA OF ") /\ ~Contains(c[1], " - ")

\* the chunks without the last one when it is labelled with a main section alone
ChapterChunks ==
    IF chunks # <<>> /\ MainSectionChunk(chunks[Len(chunks)])
    THEN SubSeq(chunks, 1, Len(chunks) - 1)
    ELSE chunks

\* C31, amended: the chunks of every variant are named by section markers at
\* strictly increasing positions of the scanned body, the Epictetus scanner
\* beginning with Section I open before its first position, with one
\* exception: the chunk that the Seneca-morals scanner labels with the
\* CLEMENCY main section alone is made at the end of input only, is the last
\* chunk, and is named by the last main section heading of the body, which
\* may lie before the CHAPTER headings of chunks emitted earlier.  No chunk is
\* emitted twice: a step emits at most one chunk, the chunks made stay as
\* they are, and their number never exceeds the number of section markers
\* passed (plus one in the Epictetus variant).
C31_SourceOrder ==
    /\ [](Scanning => InSourceOrder(ChapterChunks, 1, -1))
    /\ [](Scanning =>
             \A k \in 1..Len(chunks) : MainSectionChunk(chunks[k]) =>
                 /\ k = Len(chunks)
                 /\ Returned
                 /\ chunks[k][1] = scan.current_main_section
                 /\ Contains(chunks[k][1], "CLEMENCY"))
    /\ [](Scanning =>
             Len(chunks) <= Cardinality(MarkersPassed) + (IF Epictetus THEN 1 ELSE 0))
    /\ [][pc = "loop" =>
             /\ Len(chunks') <= Len(chunks) + 1
             /\ SubSeq(chunks', 1, Len(chunks)) = chunks]_vars

\* the chapter of the CLEMENCY section was emitted at the untitled CHAPTER
\* heading, and the text after that heading at the end of input under the
\* heading of the main section, which lies before the chapter's
C31_Witness ==
    /\ Returned
    /\ Morals
    /\ raw = MoralsClemencyChapters
    /\ Len(result) = 2
    /\ result[1].section = "SENECA OF CLEMENCY - CHAPTER I - OF MERCY"
    /\ result[2].section = "SENECA OF CLEMENCY"
    /\ result[2].text = L101

\* both markers are in t, the first end marker before the first start marker
EndFirst(t, start_marker, end_marker) ==
    /\ Find(t, start_marker, 0) # -1
    /\ Find(t, end_marker, 0) # -1
    /\ Find(t, end_marker, 0) < Find(t, start_marker, 0)

\* the text of the run has its first end marker before its start marker
ScanEndFirst ==
    /\ pc \in {"loop", "returned"}
    /\ \/ Marcus /\ EndFirst(text, marcus_start_marker, marcus_end_marker)
       \/ Dialogues /\ EndFirst(text, dialogues_start_marker, dialogues_end_marker)
       \/ Nietzsche /\ EndFirst(text, nietzsche_start_marker, nietzsche_end_marker)

\* C32 as stated: with the first end marker before the start marker the body
\* is empty and there is no chunk, and extract_content gives the empty string.
C32_Original ==
    /\ ScanEndFirst =>
          /\ scan # NoScan => scan.filtered_text = ""
          /\ chunks = <<>>
          /\ result = <<>>
    /\ (pc # "chunk_text" /\ EndFirst(raw, "*** START OF", "*** END OF")) => text = ""

\* the index of the first end marker of the text, from its beginning
FirstEnd ==
    IF Marcus THEN Find(text, marcus_end_marker, 0)
    ELSE IF Dialogues THEN Find(text, dialogues_end_marker, 0)
    ELSE Find(text, nietzsche_end_marker, 0)

\* the index of the start marker of the text
FirstStart ==
    IF Marcus THEN Find(text, marcus_start_marker, 0)
    ELSE IF Dialogues THEN Find(text, dialogues_start_marker, 0)
    ELSE Find(text, nietzsche_start_marker, 0)

\* the index the body ends before, given the first end marker: the marker
\* in Marcus, the end of the marker in Seneca-dialogues, the end of the first
\* period from the marker on in Nietzsche (-1 without such a period)
BodyEnd ==
    IF Marcus THEN FirstEnd
    ELSE IF Dialogues THEN FirstEnd + Len(dialogues_end_marker)
    ELSE IF Find(text, ".", FirstEnd) = -1 THEN -1
    ELSE Find(text, ".", FirstEnd) + 1

\* C32, amended: in the Marcus, Seneca-dialogues and Nietzsche scanners and
\* in extract_content the end marker is the first one of the whole text,
\* wherever the start marker is.  When it lies before the start marker no
\* chunk is produced, even if the end marker occurs again after the start
\* marker: the body of the Marcus and Seneca-dialogues scanners is empty, and
\* the body of the Nietzsche scanner, which ends with the first period from
\* the end marker on, is empty when a period lies between the two markers and
\* is the "I." of the start marker when none does.  extract_content then
\* returns the empty string when a newline follows the start marker, and the
\* whole text, stripped, when none does.  (The body is looked at as the loop
\* begins; a run without a body, or with the body empty or "I.", has no chunk
\* at any step.)
C32_EndMarkerFromStart ==
    /\ (pc = "loop" /\ scan.i = 0 /\ (Marcus \/ Dialogues \/ Nietzsche)) =>
          /\ scan.filtered_text =
                 IF FirstEnd = -1 \/ BodyEnd = -1 THEN SliceFrom(text, FirstStart)
                 ELSE Slice(text, FirstStart, BodyEnd)
          /\ (ScanEndFirst /\ ~Nietzsche) => scan.filtered_text = ""
          /\ (ScanEndFirst /\ Nietzsche) =>
                scan.filtered_text =
                    IF Contains(Slice(text, FirstEnd, FirstStart), ".") THEN "" ELSE "I."
    /\ (pc \in {"loop", "returned"} /\ (Marcus \/ Dialogues \/ Nietzsche)
           /\ (scan = NoScan \/ scan.filtered_text \in {"", "I."})) =>
          chunks = <<>> /\ result = <<>>
    /\ pc = "call" =>
          LET start_idx == Find(raw, "*** START OF", 0)
              end_idx == Find(raw, "*** END OF", 0)
          IN  /\ (start_idx # -1 /\ end_idx # -1 /\ Find(raw, "\n", start_idx) # -1) =>
                    text = Strip(Slice(raw, Find(raw, "\n", start_idx), end_idx))
              /\ EndFirst(raw, "*** START OF", "*** END OF") =>
                    text = IF Find(raw, "\n", start_idx) # -1 THEN "" ELSE Strip(raw)

\* the end marker without a period came before the book, which holds it
\* again: the body is the "I." of the start marker and there is no chunk
C32_Witness ==
    /\ Returned
    /\ Nietzsche
    /\ raw = NietzscheEndFirstNoPeriod
    /\ scan.filtered_text = "I."
    /\ result = <<>>

\* the heading the scan passed last is a main section heading
AfterMainHeading == LastMarker > 0 /\ StartsWith(Units[LastMarker], "SENECA OF ")

\* the heading the scan passed last is a CHAPTER heading
AfterChapterHeading == LastMarker > 0 /\ MoralsIsChapterHeader(Units[LastMarker])

\* C33 as stated: the text after a CHAPTER heading without a title is in no
\* chunk: a chunk labelled with the main section alone holds text that
\* follows the heading of the main section.
C33_Original ==
    (Returned /\ Morals /\ scan # NoScan) =>
        \A k \in 1..Len(chunks) : MainSectionChunk(chunks[k]) => AfterMainHeading

\* C33, amended: in the Seneca-morals scanner a CHAPTER heading opens a
\* chapter exactly when the look-ahead finds a title line after it; a heading
\* without one leaves no chapter open and an empty buffer.  A chunk is
\* labelled with a chapter only for the chapter that is open, which is the
\* titled CHAPTER heading passed last, so the text after a heading without a
\* title is never emitted under a chapter label.  Text buffered with no
\* chapter open, after a main section heading or after a CHAPTER heading
\* without a title, is emitted only at the end of input, under the label of
\* the main section alone, and only when that heading contains "CLEMENCY".
C33_TitledChaptersOnly ==
    /\ [][AtChapterHeading =>
             /\ scan'.current_chapter # None <=>
                    TitleLinesBefore(FirstOf(TitleStops)) # <<>>
             /\ scan'.chapter_content = <<>>]_vars
    /\ []((pc = "loop" /\ Morals /\ scan.current_chapter # None) =>
             /\ AfterChapterHeading
             /\ scan.current_chapter = Strip(Remove(Units[LastMarker], "."))
             /\ scan.current_chapter_title # None)
    /\ [][(pc = "loop" /\ Morals /\ Emits) =>
             \/ /\ scan.current_chapter # None
                /\ EmittedLabel = scan.current_main_section \o " - " \o scan.current_chapter
                                      \o " - " \o scan.current_chapter_title
             \/ /\ scan.current_chapter = None
                /\ AtEnd
                /\ Contains(scan.current_main_section, "CLEMENCY")
                /\ EmittedLabel = scan.current_main_section]_vars
    /\ []((Returned /\ Morals /\ scan # NoScan) =>
             \A k \in 1..Len(chunks) : MainSectionChunk(chunks[k]) =>
                 /\ scan.current_chapter = None
                 /\ Contains(chunks[k][1], "CLEMENCY"))

\* the text after a CHAPTER heading without a title, in a main section that
\* is not CLEMENCY, is in no chunk
C33_Witness ==
    /\ Returned
    /\ Morals
    /\ raw = "SENECA OF BENEFITS\nCHAPTER II.\n" \o L101 \o "\n"
    /\ scan.chapter_content = <<L101>>
    /\ scan.current_chapter = None
    /\ result = <<>>

\* a step of the loop of upload_quotes_to_supabase: one quote is dealt with
UploadIteration == qpc = "upload" /\ upload'.i = upload.i + 1

\* the hash of the quote at hand is in the table
InStore == \E k \in 1..Len(store) : store[k].quote_hash = HashAtHand

\* C34: while upload_quotes_to_supabase goes through its n quotes and after
\* it, every quote dealt with is counted once, as inserted, as skipped or as
\* an error; each step of the loop does one of three things: it adds the row
\* of the quote to the table and inserted_count goes up by one, the hash not
\* being in the table; or the hash is in the table, which stays as it is,
\* and skipped_count goes up by one; or a call of the store raised, and the
\* table and both counters stay as they are.  So inserted_count is the number
\* of rows added, skipped_count the number of quotes found in the table, and
\* inserted_count + skipped_count <= n, with equality exactly when no call
\* raised.  The loop ends only when all n quotes are dealt with, whatever
\* raised on the way.
C34_UploadAccounting ==
    /\ [](qpc \in {"upload", "done"} =>
             /\ upload.i <= Len(all_quotes)
             /\ upload.inserted_count + upload.skipped_count + upload.errors = upload.i
             /\ upload.inserted_count + upload.skipped_count <= Len(all_quotes)
             /\ qpc = "done" =>
                   /\ upload.i = Len(all_quotes)
                   /\ (upload.inserted_count + upload.skipped_count = Len(all_quotes))
                          <=> upload.errors = 0)
    /\ [][UploadIteration =>
             LET quote == all_quotes[upload.i + 1]
                 found == InStore
             IN  \/ /\ upload'.errors = upload.errors + 1
                    /\ store' = store
                    /\ upload'.inserted_count = upload.inserted_count
                    /\ upload'.skipped_count = upload.skipped_count
                 \/ /\ upload'.errors = upload.errors
                    /\ found
                    /\ store' = store
                    /\ upload'.inserted_count = upload.inserted_count
                    /\ upload'.skipped_count = upload.skipped_count + 1
                 \/ /\ upload'.errors = upload.errors
                    /\ ~found
                    /\ store' = Append(store, [quote_text |-> quote.quote_text,
                                               author |-> quote.author,
                                               source_url |-> quote.source_url,
                                               quote_hash |-> HashAtHand])
                    /\ upload'.inserted_count = upload.inserted_count + 1
                    /\ upload'.skipped_count = upload.skipped_count]_vars
    /\ [][(qpc = "upload" /\ ~UploadIteration) =>
             /\ store' = store
             /\ upload' = upload
             /\ upload.i = Len(all_quotes)]_vars

\* of three quotes the first raised, the second was inserted and the third,
\* the same quote from another page, was found in the table
C34_Witness ==
    /\ qpc = "done"
    /\ Len(all_quotes) = 3
    /\ upload = [i |-> 3, inserted_count |-> 1, skipped_count |-> 1, errors |-> 1]
    /\ Len(store) = 1
    /\ store[1].quote_text = all_quotes[2].quote_text
    /\ generate_quote_hash(all_quotes[3].quote_text, all_quotes[3].author) = store[1].quote_hash

=============================================================================
